---- MODULE Spec2Model ----
(***************************************************************************)
(* Console log capture, storage and search engine (console_mcp).           *)
(*                                                                         *)
(* The store is the SQLite file console_logs.db shared by every            *)
(* LogDatabase instance (one per console-logger process, one for the MCP   *)
(* server).  Each SQL statement and each db.transaction() body is atomic   *)
(* with respect to the other OS processes; a synchronous JavaScript        *)
(* handler is atomic with respect to the handlers of its own process.      *)
(*                                                                         *)
(* Timestamps are ISO-8601 UTC strings of fixed width, which SQLite        *)
(* compares as text; the model keeps the instant as an integer, whose      *)
(* order is the same.  A nullable column holds a set: {} is NULL and {v}   *)
(* is the value v.                                                         *)
(***************************************************************************)
EXTENDS Integers, Sequences, FiniteSets, TLC

VARIABLES
  db,      \* the shared store: tables, FTS tables, triggers, AUTOINCREMENT counters
  now,     \* the wall clock (Date.now())
  lg,      \* per console-logger process: position, processId, child state
  rd,      \* the getLogStatistics call in progress in the MCP server
  last,    \* the last operation performed and what it returned
  cl,      \* the calls of detectLogLevel made so far
  sr       \* the last query call of the server: its arguments and what it returned

vars == <<db, now, lg, rd, last, cl, sr>>

----------------------------------------------------------------------------
(* Bounds of the model *)

MaxTime == 2
MaxLogs == 2
MaxProcs == 2
MaxSummaries == 1
(* pruneOldLogs adds rows to session_search at every call: calls stop here *)
MaxSessionRows == 2

Times == 0..MaxTime

(* max_age_hours values tried; a negative age puts the cutoff in the       *)
(* future.  With the clock at any instant of Times, the cutoff now - h     *)
(* takes every position among the stored timestamps.                       *)
Hours == {-1, 0, 1}

NULL == {}
Some(v) == {v}

Names == {"P", "Q"}

----------------------------------------------------------------------------
(* The schema objects that resetFTSTables drops and creates *)

LogSearchTable == "log_search"
SessionSearchTable == "session_search"
LogTriggerAI == "log_entries_ai"
SessionTriggerAI == "session_summaries_ai"
SessionTriggerAU == "session_summaries_au"
SessionTriggerAD == "session_summaries_ad"

FtsObjects == {LogSearchTable, SessionSearchTable, LogTriggerAI,
               SessionTriggerAI, SessionTriggerAU, SessionTriggerAD}

(* A store whose three primary tables exist and are empty and that holds   *)
(* no FTS table and no trigger: what CREATE TABLE IF NOT EXISTS leaves on  *)
(* a new file.                                                             *)
EmptyDb ==
  [processes |-> {}, log_entries |-> {}, session_summaries |-> {},
   log_search |-> {}, session_search |-> {}, objects |-> {},
   seq_processes |-> 0, seq_log_entries |-> 0, seq_session_summaries |-> 0]

Max(S) == CHOOSE x \in S : \A y \in S : y <= x

(* the rowid SQLite gives a row inserted without one: largest rowid + 1 *)
NextRowid(rows) == IF rows = {} THEN 1 ELSE Max({r.rowid : r \in rows}) + 1

(* position of x among the ids S, counted from 1 *)
Rank(x, S) == Cardinality({y \in S : y <= x})

Ok(s) == [ok |-> TRUE, db |-> s]
Fail(s) == [ok |-> FALSE, db |-> s]

----------------------------------------------------------------------------
(* Statements of the schema *)

DropObject(s, o) ==
  Ok([s EXCEPT !.objects = @ \ {o},
               !.log_search = IF o = LogSearchTable THEN {} ELSE @,
               !.session_search = IF o = SessionSearchTable THEN {} ELSE @])

(* CREATE without IF NOT EXISTS: an error when the object exists *)
CreateObject(s, o) ==
  IF o \in s.objects THEN Fail(s) ELSE Ok([s EXCEPT !.objects = @ \cup {o}])

(* the (message, raw_output, process_name) rows of the join of log_entries *)
(* with processes, one per entry that has its process                      *)
JoinedEntries(s) ==
  {e \in s.log_entries : \E p \in s.processes : p.id = e.process_id}

ProcessName(s, pid) == (CHOOSE p \in s.processes : p.id = pid).name

LogRow(s, e, rowid) ==
  [rowid |-> rowid, message |-> e.message, raw_output |-> e.raw_output,
   process_name |-> ProcessName(s, e.process_id)]

SessionRow(x, rowid) ==
  [rowid |-> rowid, title |-> x.title, description |-> x.description,
   tags |-> x.tags, project |-> x.project]

(* INSERT INTO log_search ... SELECT ... FROM log_entries JOIN processes *)
RebuildLogSearch(s, fault) ==
  IF LogSearchTable \notin s.objects \/ fault = "rebuild_log" THEN Fail(s)
  ELSE LET base == NextRowid(s.log_search) - 1
           ids == {e.id : e \in JoinedEntries(s)}
       IN Ok([s EXCEPT !.log_search =
                @ \cup {LogRow(s, e, base + Rank(e.id, ids)) : e \in JoinedEntries(s)}])

(* INSERT INTO session_search ... SELECT ... FROM session_summaries *)
RebuildSessionSearch(s, fault) ==
  IF SessionSearchTable \notin s.objects \/ fault = "rebuild_session" THEN Fail(s)
  ELSE LET base == NextRowid(s.session_search) - 1
           ids == {x.id : x \in s.session_summaries}
       IN Ok([s EXCEPT !.session_search =
                @ \cup {SessionRow(x, base + Rank(x.id, ids)) : x \in s.session_summaries}])

(* rebuildFTSIndex: both inserts in one try; the catch only warns *)
rebuildFTSIndex(s, fault) ==
  LET r1 == RebuildLogSearch(s, fault)
  IN IF r1.ok THEN RebuildSessionSearch(r1.db, fault).db ELSE s

----------------------------------------------------------------------------
(* LogDatabase constructor: initializeSchema, resetFTSTables               *)
(*                                                                         *)
(* The CREATE TABLE IF NOT EXISTS statements of the three primary tables,  *)
(* DROP TRIGGER IF EXISTS log_entries_ad (a trigger this version never     *)
(* creates) and optimizeDatabase (indexes and pragmas) change nothing the  *)
(* model holds.  The other statements run in this order, each exec() in    *)
(* its own implicit transaction.                                           *)

(* a constructor that creates the FTS objects without dropping them first *)
InitStmts_NoDrop ==
  << <<"create", LogSearchTable>>, <<"create", SessionSearchTable>>,
     <<"create", LogTriggerAI>>, <<"create", SessionTriggerAI>>,
     <<"create", SessionTriggerAU>>, <<"create", SessionTriggerAD>>,
     <<"rebuild_log", "">>, <<"rebuild_session", "">> >>

InitStmts ==
  << <<"drop", LogTriggerAI>>, <<"drop", SessionTriggerAI>>,
     <<"drop", SessionTriggerAU>>, <<"drop", SessionTriggerAD>>,
     <<"drop", LogSearchTable>>, <<"drop", SessionSearchTable>>,
     <<"create", LogSearchTable>>, <<"create", SessionSearchTable>>,
     <<"create", LogTriggerAI>>, <<"create", SessionTriggerAI>>,
     <<"create", SessionTriggerAU>>, <<"create", SessionTriggerAD>>,
     <<"rebuild_log", "">>, <<"rebuild_session", "">> >>

InitDone == 0

(* Statement k of the constructor on store s.  A statement that throws     *)
(* ends resetFTSTables (its catch, or the catch of rebuildFTSIndex, only   *)
(* warns): no later statement of the list runs.                            *)
InitStep(s, k) ==
  LET st == InitStmts[k]
      r == CASE st[1] = "drop" -> DropObject(s, st[2])
             [] st[1] = "create" -> CreateObject(s, st[2])
             [] st[1] = "rebuild_log" -> RebuildLogSearch(s, "none")
             [] OTHER -> RebuildSessionSearch(s, "none")
  IN [db |-> r.db, ok |-> r.ok,
      next |-> IF r.ok /\ k < Len(InitStmts) THEN k + 1 ELSE InitDone]

RECURSIVE RunInit(_, _)
RunInit(s, k) ==
  IF k = InitDone THEN s
  ELSE LET r == InitStep(s, k) IN RunInit(r.db, r.next)

(* no statement of the constructor throws, from statement k on *)
RECURSIVE InitAllOk(_, _)
InitAllOk(s, k) ==
  IF k = InitDone THEN TRUE
  ELSE LET r == InitStep(s, k) IN r.ok /\ InitAllOk(r.db, r.next)

(* new LogDatabase(dir) run without interruption *)
initializeSchema(s) == RunInit(s, 1)

----------------------------------------------------------------------------
(* Process and LogEntry statements *)

(* this.rawCommand, the command line the logger was given, and the         *)
(* message of its start entry:                                             *)
(* `Process started: ${this.rawCommand} (PID: ${this.childProcess.pid})`   *)
RawCommand == "cmd"

StartMessage == [c \in {RawCommand} |-> "Process started: cmd (PID: 4242)"]

(* createProcess: end_time and exit_code are not in the column list *)
createProcess(s, name, start_time) ==
  LET id == s.seq_processes + 1
  IN [ok |-> TRUE, id |-> id,
      db |-> [s EXCEPT !.seq_processes = id,
                !.processes = @ \cup
                  {[id |-> id, name |-> name, command |-> RawCommand,
                    start_time |-> start_time, end_time |-> NULL,
                    status |-> "running", exit_code |-> NULL]}]]

(* an update that also rewrites the level of the entries of the process *)
updateProcessStatus_Stamp(s, processId, status, exitCode, endTime) ==
  [s EXCEPT !.processes =
     {IF p.id = processId
        THEN [p EXCEPT !.status = status, !.exit_code = exitCode,
                       !.end_time = endTime]
        ELSE p : p \in @},
            !.log_entries =
     {IF e.process_id = processId /\ status = "failed"
        THEN [e EXCEPT !.level = "error"]
        ELSE e : e \in @}]

(* updateProcessStatus: exitCode and endTime are bound as given; an        *)
(* undefined argument is bound as NULL.  No row with the id: no change.    *)
updateProcessStatus(s, processId, status, exitCode, endTime) ==
  [s EXCEPT !.processes =
     {IF p.id = processId
        THEN [p EXCEPT !.status = status, !.exit_code = exitCode,
                       !.end_time = endTime]
        ELSE p : p \in @}]

(* log_entries.process_id REFERENCES processes(id); better-sqlite3 opens   *)
(* every connection with foreign keys enforced.                            *)
ForeignKeyHolds(s, pid) == \E p \in s.processes : p.id = pid

(* Trigger log_entries_ai: part of the INSERT statement, so an error in    *)
(* it (no table log_search, or the FTS insert failing) aborts the INSERT.  *)
LogTriggerFires(s) == LogTriggerAI \in s.objects

LogTriggerFails(s, fault) ==
  LogSearchTable \notin s.objects \/ fault = "index"

(* addLogEntry(entry) -> id *)
addLogEntry(s, e, fault) ==
  LET id == s.seq_log_entries + 1
      row == [id |-> id, process_id |-> e.process_id,
              timestamp |-> e.timestamp, level |-> e.level,
              message |-> e.message, raw_output |-> e.raw_output,
              source |-> e.source]
      s1 == [s EXCEPT !.seq_log_entries = id, !.log_entries = @ \cup {row}]
  IN IF ~ForeignKeyHolds(s, e.process_id)
       THEN [ok |-> FALSE, id |-> 0, db |-> s, fault |-> "foreign_key"]
     ELSE IF ~LogTriggerFires(s)
       THEN [ok |-> TRUE, id |-> id, db |-> s1, fault |-> "none"]
     ELSE IF LogTriggerFails(s, fault)
       THEN [ok |-> FALSE, id |-> 0, db |-> s, fault |-> "index"]
     ELSE [ok |-> TRUE, id |-> id, fault |-> "none",
           db |-> [s1 EXCEPT !.log_search =
                     @ \cup {LogRow(s1, row, NextRowid(s.log_search))}]]

(* createSessionSummary(summary) -> id, with trigger session_summaries_ai *)
createSessionSummary(s, x) ==
  LET id == s.seq_session_summaries + 1
      row == [id |-> id, title |-> x.title, description |-> x.description,
              tags |-> x.tags, timestamp |-> x.timestamp,
              project |-> x.project]
      s1 == [s EXCEPT !.seq_session_summaries = id,
                      !.session_summaries = @ \cup {row}]
  IN IF SessionTriggerAI \notin s.objects THEN [ok |-> TRUE, id |-> id, db |-> s1]
     ELSE IF SessionSearchTable \notin s.objects THEN [ok |-> FALSE, id |-> 0, db |-> s]
     ELSE [ok |-> TRUE, id |-> id,
           db |-> [s1 EXCEPT !.session_search =
                     @ \cup {SessionRow(row, NextRowid(s.session_search))}]]

----------------------------------------------------------------------------
(* Retention *)

(* cutoffTime = now - maxAgeHours *)
Cutoff(t, maxAgeHours) == t - maxAgeHours

(* a prune that also takes the entries written at the cutoff itself *)
OldEntries_Inclusive(s, cutoff) == {e \in s.log_entries : e.timestamp <= cutoff}

(* WHERE timestamp < ? *)
OldEntries(s, cutoff) == {e \in s.log_entries : e.timestamp < cutoff}

(* an orphan search that takes every process *)
OrphanedProcesses_All(s) == s.processes

(* processes p LEFT JOIN log_entries le ... WHERE le.process_id IS NULL *)
OrphanedProcesses(s) ==
  {p \in s.processes : ~\E e \in s.log_entries : e.process_id = p.id}

PruneFaults ==
  {"none", "count", "clear", "delete", "rebuild_log", "rebuild_session", "orphans"}

(* a prune that leaves the old index rows in place *)
ClearLogSearch_Kept(s) == s

(* DELETE FROM log_search *)
ClearLogSearch(s) == [s EXCEPT !.log_search = {}]

(* DELETE FROM log_entries WHERE timestamp < ? *)
DeleteOldEntries(s, cutoff) ==
  [s EXCEPT !.log_entries = @ \ OldEntries(s, cutoff)]

(* a prune that leaves the orphans in place *)
DeleteOrphans_Kept(s) == s

(* DELETE FROM processes WHERE id = ?, for each orphan found *)
DeleteOrphans(s) == [s EXCEPT !.processes = @ \ OrphanedProcesses(s)]

(* The body of the transaction of pruneOldLogs; fault names the statement  *)
(* that fails when it is reached.  A statement that throws makes           *)
(* db.transaction() roll back and rethrow; rebuildFTSIndex catches its     *)
(* own errors, so the transaction goes on and commits.                     *)
pruneOldLogs(s, cutoff, fault) ==
  LET count == Cardinality(OldEntries(s, cutoff))
      s1 == ClearLogSearch(s)
      s2 == DeleteOldEntries(s1, cutoff)
      s3 == rebuildFTSIndex(s2, fault)
      s4 == DeleteOrphans(s3)
      thrown == \/ fault \in {"count", "clear", "delete", "orphans"}
                \/ LogSearchTable \notin s.objects
      failed == IF thrown THEN (IF fault \in {"count", "clear", "delete", "orphans"}
                                 THEN fault ELSE "clear")
                ELSE IF ~RebuildLogSearch(s2, fault).ok THEN "rebuild_log"
                ELSE IF ~RebuildSessionSearch(RebuildLogSearch(s2, fault).db, fault).ok
                  THEN "rebuild_session"
                ELSE "none"
  IN IF thrown
       THEN [ok |-> FALSE, db |-> s, deletedLogs |-> 0, deletedProcesses |-> 0,
             fault |-> failed]
       ELSE [ok |-> TRUE, db |-> s4, deletedLogs |-> count,
             deletedProcesses |-> Cardinality(OrphanedProcesses(s3)),
             fault |-> failed]

(* prune_old_logs with dry_run: the two counting SELECTs of the handler *)
DryRunLogs(s, cutoff) ==
  Cardinality({e \in s.log_entries : e.timestamp < cutoff})

(* a dry run that prunes *)
DryRunWrites_Prune(s, cutoff) == pruneOldLogs(s, cutoff, "none").db

(* what the dry_run branch writes to the store: it runs the two SELECTs only *)
DryRunWrites(s, cutoff) == s

(* a dry run that counts the processes that have no entry now *)
DryRunProcesses_Now(s, cutoff) == Cardinality(OrphanedProcesses(s))

DryRunProcesses(s, cutoff) ==
  Cardinality({p \in s.processes :
     ~\E e \in s.log_entries : e.process_id = p.id /\ e.timestamp >= cutoff})

----------------------------------------------------------------------------
(* Text.  A string of the child's output is named by a TLA+ string and     *)
(* spelled by Spell; the string functions work on the spelling.            *)

Spell ==
  [s \in {"ok\n", "ok", " Warn: disk \nFAILED\n", " Warn: disk ", "Warn: disk",
          "FAILED", "", " \n\nok", " ", "build succeeded\n", "build succeeded",
          "connection failed\n", "connection failed"} |->
     CASE s = "ok\n" -> <<"o", "k", "\n">>
       [] s = "build succeeded\n" ->
            <<"b", "u", "i", "l", "d", " ", "s", "u", "c", "c", "e", "e", "d", "e",
              "d", "\n">>
       [] s = "build succeeded" ->
            <<"b", "u", "i", "l", "d", " ", "s", "u", "c", "c", "e", "e", "d", "e",
              "d">>
       [] s = "connection failed\n" ->
            <<"c", "o", "n", "n", "e", "c", "t", "i", "o", "n", " ", "f", "a", "i",
              "l", "e", "d", "\n">>
       [] s = "connection failed" ->
            <<"c", "o", "n", "n", "e", "c", "t", "i", "o", "n", " ", "f", "a", "i",
              "l", "e", "d">>
       [] s = " \n\nok" -> <<" ", "\n", "\n", "o", "k">>
       [] s = " " -> <<" ">>
       [] s = "ok" -> <<"o", "k">>
       [] s = " Warn: disk \nFAILED\n" ->
            <<" ", "W", "a", "r", "n", ":", " ", "d", "i", "s", "k", " ", "\n",
              "F", "A", "I", "L", "E", "D", "\n">>
       [] s = " Warn: disk " ->
            <<" ", "W", "a", "r", "n", ":", " ", "d", "i", "s", "k", " ">>
       [] s = "Warn: disk" -> <<"W", "a", "r", "n", ":", " ", "d", "i", "s", "k">>
       [] s = "FAILED" -> <<"F", "A", "I", "L", "E", "D">>
       [] OTHER -> << >>]

Named(cs) == CHOOSE s \in DOMAIN Spell : Spell[s] = cs

(* the chunks a child writes in the model *)
Chunks == {"ok\n", " Warn: disk \nFAILED\n", " \n\nok"}

Upper == <<"A", "B", "D", "E", "F", "G", "I", "L", "N", "O", "R", "U", "W">>
Lower == <<"a", "b", "d", "e", "f", "g", "i", "l", "n", "o", "r", "u", "w">>

LowerChar(c) ==
  IF \E i \in 1..Len(Upper) : Upper[i] = c
    THEN Lower[CHOOSE i \in 1..Len(Upper) : Upper[i] = c]
    ELSE c

toLowerCase(cs) == [i \in 1..Len(cs) |-> LowerChar(cs[i])]

includes(cs, sub) ==
  \E i \in 0..(Len(cs) - Len(sub)) : \A j \in 1..Len(sub) : cs[i + j] = sub[j]

IsSpace(c) == c \in {" ", "\n", "\t", "\r"}

trim(cs) ==
  IF \A i \in 1..Len(cs) : IsSpace(cs[i]) THEN << >>
  ELSE LET a == CHOOSE i \in 1..Len(cs) :
                  ~IsSpace(cs[i]) /\ \A j \in 1..(i - 1) : IsSpace(cs[j])
           b == CHOOSE i \in 1..Len(cs) :
                  ~IsSpace(cs[i]) /\ \A j \in (i + 1)..Len(cs) : IsSpace(cs[j])
       IN SubSeq(cs, a, b)

(* output.split("\n") *)
RECURSIVE split(_)
split(cs) ==
  IF \A i \in 1..Len(cs) : cs[i] # "\n" THEN <<cs>>
  ELSE LET n == CHOOSE i \in 1..Len(cs) :
                  cs[i] = "\n" /\ \A j \in 1..(i - 1) : cs[j] # "\n"
       IN <<SubSeq(cs, 1, n - 1)>> \o split(SubSeq(cs, n + 1, Len(cs)))

(* a filter that lets every line through *)
NonBlank_All(lines) == lines

(* .filter((line) => line.trim()) *)
NonBlank(lines) == SelectSeq(lines, LAMBDA l : trim(l) # << >>)

(* message.trim() of addLogEntry; the messages the logger writes itself    *)
(* have no white space at either end                                       *)
Trimmed(s) == IF s \in DOMAIN Spell THEN Named(trim(Spell[s])) ELSE s

(* process.env.CONSOLE_LOG_MAX_AGE_HOURS: unset (NULL) or a string, here   *)
(* the empty string, a blank, a word and the numerals of Hours             *)
EnvValues ==
  {NULL} \cup {Some(cs) : cs \in {<< >>, <<" ">>, <<"a", "b", "c">>, <<"0">>, <<"1">>,
                                  <<"-", "1">>}}

Digits == <<"0", "1", "2", "3", "4", "5", "6", "7", "8", "9">>

IsDigit(c) == \E i \in 1..Len(Digits) : Digits[i] = c

DigitValue(c) == (CHOOSE i \in 1..Len(Digits) : Digits[i] = c) - 1

RECURSIVE DecimalValue(_)
DecimalValue(cs) ==
  IF cs = << >> THEN 0
  ELSE 10 * DecimalValue(SubSeq(cs, 1, Len(cs) - 1)) + DigitValue(cs[Len(cs)])

IsDecimal(cs) == cs # << >> /\ \A i \in 1..Len(cs) : IsDigit(cs[i])

(* Number(string): white space is stripped; the empty string is 0; a       *)
(* decimal numeral with an optional sign is its value; a string of another *)
(* form is NaN (NULL)                                                      *)
Number(cs) ==
  LET t == trim(cs)
  IN IF t = << >> THEN Some(0)
     ELSE IF IsDecimal(t) THEN Some(DecimalValue(t))
     ELSE IF t[1] = "-" /\ IsDecimal(Tail(t)) THEN Some(0 - DecimalValue(Tail(t)))
     ELSE IF t[1] = "+" /\ IsDecimal(Tail(t)) THEN Some(DecimalValue(Tail(t)))
     ELSE NULL

DefaultMaxAgeHours == 336

(* maxAgeHours && !isNaN(Number(maxAgeHours)) ? Number(maxAgeHours) : 336; *)
(* the empty string is falsy, every other string is truthy                 *)
AgeHours(env) ==
  IF env = NULL \/ env = Some(<< >>) THEN DefaultMaxAgeHours
  ELSE LET n == Number(CHOOSE cs \in env : TRUE)
       IN IF n = NULL THEN DefaultMaxAgeHours ELSE CHOOSE h \in n : TRUE

Sources == {"stdout", "stderr"}

(* word occurs in line, upper and lower case taken as equal *)
Contains(line, word) ==
  \E i \in 0..(Len(line) - Len(word)) :
    \A j \in 1..Len(word) : LowerChar(line[i + j]) = word[j]

HasError(line) ==
  \/ Contains(line, <<"e", "r", "r", "o", "r">>)
  \/ Contains(line, <<"f", "a", "i", "l">>)

HasWarn(line) == Contains(line, <<"w", "a", "r", "n">>)

HasDebug(line) == Contains(line, <<"d", "e", "b", "u", "g">>)

(* a classifier that looks at the stream only when no keyword is found *)
detectLogLevel_ContentFirst(cs, source) ==
  LET lowerMessage == toLowerCase(cs)
  IN IF \/ includes(lowerMessage, <<"e", "r", "r", "o", "r">>)
        \/ includes(lowerMessage, <<"f", "a", "i", "l">>)
       THEN "error"
     ELSE IF includes(lowerMessage, <<"w", "a", "r", "n">>) THEN "warn"
     ELSE IF includes(lowerMessage, <<"d", "e", "b", "u", "g">>) THEN "debug"
     ELSE IF source = "stderr" THEN "error"
     ELSE "info"

(* a classifier that tests 'warn' before 'error' and 'fail' *)
detectLogLevel_WarnFirst(cs, source) ==
  LET lowerMessage == toLowerCase(cs)
  IN IF source = "stderr" THEN "error"
     ELSE IF includes(lowerMessage, <<"w", "a", "r", "n">>) THEN "warn"
     ELSE IF \/ includes(lowerMessage, <<"e", "r", "r", "o", "r">>)
             \/ includes(lowerMessage, <<"f", "a", "i", "l">>)
       THEN "error"
     ELSE IF includes(lowerMessage, <<"d", "e", "b", "u", "g">>) THEN "debug"
     ELSE "info"

(* detectLogLevel(message, source) *)
detectLogLevel(cs, source) ==
  LET lowerMessage == toLowerCase(cs)
  IN IF \/ source = "stderr"
        \/ includes(lowerMessage, <<"e", "r", "r", "o", "r">>)
        \/ includes(lowerMessage, <<"f", "a", "i", "l">>)
       THEN "error"
     ELSE IF includes(lowerMessage, <<"w", "a", "r", "n">>) THEN "warn"
     ELSE IF includes(lowerMessage, <<"d", "e", "b", "u", "g">>) THEN "debug"
     ELSE "info"

(* detectLogLevel is called on lines made of at most MaxWords of these *)
MaxWords == 2

Words ==
  { <<"E", "r", "r", "o", "r">>, <<"F", "A", "I", "L">>, <<"W", "a", "r", "n">>,
    <<"d", "e", "b", "u", "g">>, <<"o", "k">>, <<"e", "r", "r">>, <<"o", "r">> }

RECURSIVE LinesOf(_)
LinesOf(n) ==
  IF n = 0 THEN { << >> }
  ELSE LinesOf(n - 1) \cup {l \o w : l \in LinesOf(n - 1), w \in Words}

Lines == LinesOf(MaxWords)

(* the record of the calls of detectLogLevel: the pair it was called with, *)
(* what the first call returned, what the latest call with the same pair   *)
(* returned, and the number of calls                                       *)
NoCall ==
  [line |-> << >>, source |-> "stdout", level |-> "info", again |-> "info",
   calls |-> 0]

(* the columns of a log_search row *)
Triple(r) == <<r.message, r.raw_output, r.process_name>>

----------------------------------------------------------------------------
(* searchLogs.  log_search is an FTS5 table with the default tokenizer:    *)
(* a text is indexed as its runs of letters and digits, in lower case.     *)

TokensOf ==
  [s \in {"Process started: cmd (PID: 4242)", "build succeeded", "build succeeded\n",
          "connection failed", "connection failed\n",
          "Process exited with code 1", "web", "web-1", "api"} |->
     CASE s = "Process started: cmd (PID: 4242)" ->
            {"process", "started", "cmd", "pid", "4242"}
       [] s \in {"build succeeded", "build succeeded\n"} -> {"build", "succeeded"}
       [] s \in {"connection failed", "connection failed\n"} ->
            {"connection", "failed"}
       [] s = "Process exited with code 1" ->
            {"process", "exited", "with", "code", "1"}
       [] s = "web" -> {"web"}
       [] s = "web-1" -> {"web", "1"}
       [] OTHER -> {"api"}]

(* a string an FTS5 query may hold without quotes: letters, digits, '_' *)
Bareword(s) == TokensOf[s] = {s}

(* a query string, as its words and operators *)
Queries ==
  { <<"connection">>, <<"zzz">>, <<"build", "OR", "process">> }

(* ftsQuery += ` AND process_name:${processName}`; an empty processName is  *)
(* falsy                                                                   *)
FtsQuery(query, processName) ==
  IF processName = NULL \/ processName = Some("") THEN query
  ELSE query \o <<"AND", "process_name:", CHOOSE n \in processName : TRUE>>

(* FTS5 reads a OR b AND c as a OR (b AND c): the operands of OR *)
RECURSIVE OrOperands(_)
OrOperands(q) ==
  IF \A i \in 1..Len(q) : q[i] # "OR" THEN {q}
  ELSE LET n == CHOOSE i \in 1..Len(q) : q[i] = "OR" /\ \A j \in 1..(i - 1) : q[j] # "OR"
       IN {SubSeq(q, 1, n - 1)} \cup OrOperands(SubSeq(q, n + 1, Len(q)))

(* the column filter of q, if it has one, and its plain words *)
ColumnFilter(q) == {q[i + 1] : i \in {j \in 1..(Len(q) - 1) : q[j] = "process_name:"}}

PlainWords(q) ==
  {q[i] : i \in {j \in 1..Len(q) :
                  /\ q[j] \notin {"AND", "OR", "process_name:"}
                  /\ (j = 1 \/ q[j - 1] # "process_name:")}}

(* MATCH throws on a query it cannot parse *)
FtsSyntaxError(q) == \E n \in ColumnFilter(q) : ~Bareword(n)

RowTokens(r) ==
  TokensOf[r.message] \cup TokensOf[r.raw_output] \cup TokensOf[r.process_name]

AndMatches(r, q) ==
  /\ \A w \in PlainWords(q) : w \in RowTokens(r)
  /\ \A n \in ColumnFilter(q) : TokensOf[n] \subseteq TokensOf[r.process_name]

(* an index search that returns every row *)
FtsResults_All(s, q) == s.log_search

(* SELECT message, raw_output, process_name FROM log_search WHERE          *)
(* log_search MATCH ? *)
FtsResults(s, q) == {r \in s.log_search : \E o \in OrOperands(q) : AndMatches(r, o)}

(* the rows of the second SELECT before ORDER BY and LIMIT *)
SearchRows(s, fts, level, since) ==
  {e \in s.log_entries :
     /\ \E p \in s.processes : p.id = e.process_id
     /\ \E r \in fts :
          Triple(r) = <<e.message, e.raw_output, ProcessName(s, e.process_id)>>
     /\ (level = NULL \/ level = Some("") \/ Some(e.level) = level)
     /\ (since = NULL \/ \E t \in since : e.timestamp > t)}

(* a search that returns every row whatever the limit *)
Limited_None(q, limit) == q

(* ORDER BY le.timestamp DESC LIMIT ?: every order of the rows that is     *)
(* descending by timestamp, cut after limit rows (all rows for a negative  *)
(* limit); rows with equal timestamps come in any order                    *)
RECURSIVE Ordered(_)
Ordered(rows) ==
  IF rows = {} THEN { << >> }
  ELSE UNION {{<<e>> \o q : q \in Ordered(rows \ {e})} :
                e \in {x \in rows : \A y \in rows : x.timestamp >= y.timestamp}}

Limited(q, limit) ==
  IF limit < 0 \/ limit >= Len(q) THEN q ELSE SubSeq(q, 1, limit)

(* searchLogs(query, limit, processName, level, since): whether it returns *)
(* and the lists it may return                                             *)
searchLogs(s, query, limit, processName, level, since) ==
  LET q == FtsQuery(query, processName)
      fts == FtsResults(s, q)
  IN IF LogSearchTable \notin s.objects \/ FtsSyntaxError(q)
       THEN [ok |-> FALSE, results |-> {<< >>}]
     ELSE IF fts = {} THEN [ok |-> TRUE, results |-> {<< >>}]
     ELSE [ok |-> TRUE,
           results |-> {Limited(o, limit) : o \in Ordered(SearchRows(s, fts, level, since))}]

NoSearch ==
  [called |-> FALSE, ok |-> TRUE, query |-> << >>, limit |-> 0,
   processName |-> NULL, level |-> NULL, since |-> NULL, result |-> << >>]

----------------------------------------------------------------------------
(* What the callers pass in *)

LogInputs ==
  {[level |-> "info", message |-> "build succeeded",
    raw_output |-> "build succeeded\n", source |-> "stdout"]}

SummaryInputs ==
  {[title |-> "fix", description |-> "fixed the build", tags |-> "[build]",
    project |-> "console_mcp", timestamp |-> 0]}

Entry(pid, ts, in) ==
  [process_id |-> pid, timestamp |-> ts, level |-> in.level,
   message |-> in.message, raw_output |-> in.raw_output, source |-> in.source]

NoLoggers == [l \in {} |-> 0]

(* getLogStatistics: the four SELECTs, each on the store as committed when *)
(* it runs (the page counts of the file are left out)                      *)
LogCount(s) == Cardinality(s.log_entries)

ProcessCount(s) == Cardinality(s.processes)

OldestLog(s) ==
  IF s.log_entries = {} THEN NULL
  ELSE Some(CHOOSE t \in {e.timestamp : e \in s.log_entries} :
              \A e \in s.log_entries : t <= e.timestamp)

NewestLog(s) ==
  IF s.log_entries = {} THEN NULL
  ELSE Some(Max({e.timestamp : e \in s.log_entries}))

(* what getLogStatistics returns when no other process writes meanwhile *)
getLogStatistics(s) ==
  [totalLogs |-> LogCount(s), totalProcesses |-> ProcessCount(s),
   oldestLog |-> OldestLog(s), newestLog |-> NewestLog(s)]

(* the reader: pc is the statement it runs next; seen is a history of the  *)
(* committed states of the store since the call began, as statistics      *)
Idle ==
  [pc |-> "idle", totalLogs |-> 0, totalProcesses |-> 0, oldestLog |-> NULL,
   newestLog |-> NULL, seen |-> {}]

Reading == {"processCount", "oldestLog", "newestLog"}

(* a write of another process commits store s while the reader r runs *)
Commit(r, s) ==
  IF r.pc \in Reading THEN [r EXCEPT !.seen = @ \cup {getLogStatistics(s)}]
  ELSE r

(* the record kept of the last call: op, its numeric argument, the         *)
(* statement of it that failed ("none": no statement failed), whether it   *)
(* returned (ok) or threw, and up to two numbers it returned               *)
Did(op, arg, fault, ok, n1, n2) ==
  [op |-> op, arg |-> arg, fault |-> fault, ok |-> ok, n1 |-> n1, n2 |-> n2]

Other(op) == Did(op, 0, "none", TRUE, 0, 0)

----------------------------------------------------------------------------
(* Calls of one LogDatabase instance, each run to completion *)

(* new LogDatabase(dir) on the existing store *)
Construct ==
  /\ db' = initializeSchema(db)
  /\ last' = Other("construct")
  /\ UNCHANGED <<now, lg, rd, cl, sr>>

CallCreateProcess(name) ==
  /\ db.seq_processes < MaxProcs
  /\ LET r == createProcess(db, name, now)
     IN /\ db' = r.db
        /\ last' = Other("createProcess")
  /\ rd' = Commit(rd, db')
  /\ UNCHANGED <<now, lg, cl, sr>>

CallAddLogEntry(pid, ts, in, fault) ==
  /\ db.seq_log_entries < MaxLogs
  /\ LET r == addLogEntry(db, Entry(pid, ts, in), fault)
     IN /\ db' = r.db
        /\ last' = Did("addLogEntry", 0, r.fault, r.ok, 0, 0)
  /\ rd' = Commit(rd, db')
  /\ UNCHANGED <<now, lg, cl, sr>>

CallCreateSessionSummary(x) ==
  /\ db.seq_session_summaries < MaxSummaries
  /\ LET r == createSessionSummary(db, [x EXCEPT !.timestamp = now])
     IN /\ db' = r.db
        /\ last' = Did("createSessionSummary", 0, "none", r.ok, 0, 0)
  /\ rd' = Commit(rd, db')
  /\ UNCHANGED <<now, lg, cl, sr>>

CallPruneOldLogs(h, fault) ==
  /\ Cardinality(db.session_search) < MaxSessionRows
  /\ LET r == pruneOldLogs(db, Cutoff(now, h), fault)
     IN /\ db' = r.db
        /\ last' = Did("pruneOldLogs", h, r.fault, r.ok, r.deletedLogs, r.deletedProcesses)
  /\ rd' = Commit(rd, db')
  /\ UNCHANGED <<now, lg, cl, sr>>

(* prune_old_logs tool with dry_run = true *)
CallDryRun(h) ==
  /\ db' = DryRunWrites(db, Cutoff(now, h))
  /\ last' = Did("dry_run", h, "none", TRUE, DryRunLogs(db, Cutoff(now, h)),
                 DryRunProcesses(db, Cutoff(now, h)))
  /\ UNCHANGED <<now, lg, rd, cl, sr>>

Tick ==
  /\ now < MaxTime
  /\ now' = now + 1
  /\ last' = Other("tick")
  /\ UNCHANGED <<db, lg, rd, cl, sr>>

----------------------------------------------------------------------------
(* Spec: one instance, no fault *)

Init ==
  /\ db = initializeSchema(EmptyDb)
  /\ now = 0
  /\ lg = NoLoggers
  /\ rd = Idle
  /\ cl = NoCall
  /\ sr = NoSearch
  /\ last = Other("construct")

DoCreateProcess == \E name \in Names : CallCreateProcess(name)

DoAddLogEntry ==
  \E pid \in 1..MaxProcs, in \in LogInputs :
    CallAddLogEntry(pid, now, in, "none")

DoCreateSessionSummary == \E x \in SummaryInputs : CallCreateSessionSummary(x)

DoPruneOldLogs == \E h \in Hours : CallPruneOldLogs(h, "none")

DoDryRun == \E h \in Hours : CallDryRun(h)

Next ==
  \/ Construct
  \/ DoCreateProcess
  \/ DoAddLogEntry
  \/ DoPruneOldLogs
  \/ DoDryRun
  \/ Tick

Spec == Init /\ [][Next]_vars

----------------------------------------------------------------------------
(* Claims checked under Spec *)

Count(rows, t) == Cardinality({r \in rows : Triple(r) = t})

(* the log index a clear-and-rebuild from the primary tables produces *)
RebuiltLogSearch(s) == RebuildLogSearch(ClearLogSearch(s), "none").db.log_search

SameIndex(rows1, rows2) ==
  \A t \in {Triple(r) : r \in rows1 \cup rows2} : Count(rows1, t) = Count(rows2, t)

(* C3: after any sequence of construction, createProcess, addLogEntry and  *)
(* pruneOldLogs by one instance, log_search holds exactly one row          *)
(* (message, raw_output, process name) per stored LogEntry and none for a  *)
(* deleted one: it equals what a clear-and-rebuild would produce.          *)
C3_IndexEqualsRebuild ==
  /\ LogSearchTable \in db.objects
  /\ SameIndex(db.log_search, RebuiltLogSearch(db))
  /\ Cardinality(db.log_search) = Cardinality(db.log_entries)
  /\ \A e \in db.log_entries :
       \E r \in db.log_search :
         Triple(r) = <<e.message, e.raw_output, ProcessName(db, e.process_id)>>

C3_Witness ==
  /\ last.op = "pruneOldLogs" /\ last.n1 > 0
  /\ Cardinality(db.log_search) >= 1
  /\ db.seq_log_entries >= 2

(* C4: right after pruneOldLogs(h) returns, no stored LogEntry has         *)
(* timestamp < now - h and no Process is left without LogEntries.          *)
C4_PrunePostcondition ==
  (last.op = "pruneOldLogs" /\ last.ok) =>
     /\ \A e \in db.log_entries : e.timestamp >= Cutoff(now, last.arg)
     /\ \A p \in db.processes : \E e \in db.log_entries : e.process_id = p.id

C4_Witness ==
  /\ last.op = "pruneOldLogs" /\ last.ok
  /\ last.n1 > 0 /\ last.n2 > 0
  /\ db.log_entries # {}

(* C12: pruneOldLogs(h) deletes only LogEntries with timestamp < now - h:  *)
(* every LogEntry at or after the cutoff survives unchanged, no entry is   *)
(* added, and deletedLogs and deletedProcesses equal the decrease of       *)
(* totalLogs and totalProcesses of getLogStatistics.                       *)
C12_PruneDeletesOnlyOld ==
  [][(last'.op = "pruneOldLogs" /\ last'.ok) =>
       /\ \A e \in db.log_entries :
            e.timestamp >= Cutoff(now, last'.arg) => e \in db'.log_entries
       /\ db'.log_entries \subseteq db.log_entries
       /\ last'.n1 = getLogStatistics(db).totalLogs
                       - getLogStatistics(db').totalLogs
       /\ last'.n2 = getLogStatistics(db).totalProcesses
                       - getLogStatistics(db').totalProcesses]_vars

C12_Witness ==
  /\ last.op = "pruneOldLogs" /\ last.ok /\ last.arg = 1
  /\ last.n1 = 1 /\ last.n2 = 1
  /\ \E e \in db.log_entries : e.timestamp = Cutoff(now, last.arg)

(* C10: the counts of a dry run equal deletedLogs and deletedProcesses of  *)
(* the real pruneOldLogs with the same max_age_hours run next, with no     *)
(* write in between and the clock unchanged.                               *)
C10_DryRunCountsMatch ==
  [][(last.op = "dry_run" /\ last'.op = "pruneOldLogs" /\ last'.ok
        /\ last'.arg = last.arg /\ now' = now)
       => (last'.n1 = last.n1 /\ last'.n2 = last.n2)]_vars

C10_Witness ==
  /\ last.op = "dry_run" /\ last.n1 > 0 /\ last.n2 > 0
  /\ db.log_entries # {}
  /\ pruneOldLogs(db, Cutoff(now, last.arg), "none").deletedProcesses > 0

----------------------------------------------------------------------------
(* SpecSession: the MCP server's instance on a store that already holds a  *)
(* process with one LogEntry; session summaries are created and the        *)
(* prune_old_logs tool is called with and without dry_run.                 *)

SeedDb ==
  LET s0 == initializeSchema(EmptyDb)
      s1 == createProcess(s0, "P", 0).db
  IN addLogEntry(s1, Entry(1, 0, CHOOSE in \in LogInputs : TRUE), "none").db

InitSession ==
  /\ db = SeedDb
  /\ now = 0
  /\ lg = NoLoggers
  /\ rd = Idle
  /\ cl = NoCall
  /\ sr = NoSearch
  /\ last = Other("construct")

NextSession ==
  \/ Construct
  \/ DoCreateSessionSummary
  \/ DoAddLogEntry
  \/ DoPruneOldLogs
  \/ DoDryRun
  \/ Tick

SpecSession == InitSession /\ [][NextSession]_vars

(* C9: a dry-run prune_old_logs call changes nothing: processes,           *)
(* log_entries, session_summaries and both search indexes are the same     *)
(* before and after the call, for every max_age_hours.                     *)
C9_DryRunChangesNothing ==
  [][last'.op = "dry_run" => db' = db]_vars

C9_Witness ==
  /\ last.op = "dry_run" /\ last.n1 > 0 /\ last.n2 > 0
  /\ db.session_summaries # {} /\ db.session_search # {}
  /\ db.log_search # {} /\ db.processes # {}

(* C11: pruneOldLogs leaves every session_summaries row and the session   *)
(* search index unchanged; after it the session index still holds exactly  *)
(* one row per session summary.                                            *)
C11_PruneKeepsSessionIndex ==
  [][(last'.op = "pruneOldLogs" /\ last'.ok) =>
       /\ db'.session_summaries = db.session_summaries
       /\ db'.session_search = db.session_search
       /\ Cardinality(db'.session_search) = Cardinality(db'.session_summaries)]_vars

----------------------------------------------------------------------------
(* SpecFaults: Spec with a statement of addLogEntry or of pruneOldLogs     *)
(* failing (a full disk, a damaged FTS table)                              *)

DoAddLogEntryFault ==
  \E pid \in 1..MaxProcs, in \in LogInputs, fault \in {"none", "index"} :
    CallAddLogEntry(pid, now, in, fault)

DoPruneOldLogsFault ==
  \E h \in Hours, fault \in PruneFaults : CallPruneOldLogs(h, fault)

NextFaults ==
  \/ Construct
  \/ DoCreateProcess
  \/ DoAddLogEntryFault
  \/ DoPruneOldLogsFault
  \/ Tick

SpecFaults == Init /\ [][NextFaults]_vars

(* C5: pruneOldLogs is all-or-nothing: when one of its statements fails    *)
(* the call fails as a whole and the store is as before the call.          *)
C5_PruneAllOrNothing ==
  [][(last'.op = "pruneOldLogs" /\ last'.fault # "none")
       => (~last'.ok /\ db' = db)]_vars

(* C8: when the index insert for a new LogEntry fails, addLogEntry still   *)
(* stores the LogEntry and returns its id.                                 *)
C8_IndexFailureKeepsEntry ==
  (last.op = "addLogEntry" /\ last.fault = "index") => last.ok

----------------------------------------------------------------------------
(* console-logger processes (ConsoleLogger)                                *)

Loggers == {"L1", "L2"}

LoggerName == [l \in Loggers |-> IF l = "L1" THEN "P" ELSE "Q"]

(* a logger never gets more chunks or signals than this in the model *)
MaxChunks == 1
MaxSignals == 2

(* pc: init (constructor of LogDatabase, statement k next), constructed,   *)
(* pruned (performAutoPruning done), created (row inserted by start()),    *)
(* running (handlers registered), exited (process.exit by a handler),      *)
(* crashed (an exception left start() or a handler)                        *)
NewLogger ==
  [pc |-> "init", k |-> 1, processId |-> NULL, child |-> "none",
   chunks |-> 0, signals |-> 0, prunes |-> 0]

(* the child's exit event: a code and no signal, or a signal and no code *)
ExitEvents(child) ==
  {[code |-> Some(0), signal |-> ""], [code |-> Some(1), signal |-> ""]}
    \cup IF child = "alive" THEN {[code |-> NULL, signal |-> "SIGKILL"]}
         ELSE {[code |-> NULL, signal |-> child]}

ExitMessage(ev) ==
  CASE ev.code = Some(0) -> "Process exited with code 0"
    [] ev.code = Some(1) -> "Process exited with code 1"
    [] ev.signal = "SIGINT" -> "Process exited with code null (signal: SIGINT)"
    [] ev.signal = "SIGTERM" -> "Process exited with code null (signal: SIGTERM)"
    [] OTHER -> "Process exited with code null (signal: SIGKILL)"

SignalMessage(sig) ==
  IF sig = "SIGINT" THEN "Process terminated by user (SIGINT)"
  ELSE "Process terminated (SIGTERM)"

(* a logger whose writes reach the store only later *)
LoggerAddLogEntry_Deferred(s, processId, level, message, rawOutput, source, t) ==
  [ok |-> TRUE, id |-> 0, db |-> s, fault |-> "none"]

(* ConsoleLogger.addLogEntry: nothing without a processId *)
LoggerAddLogEntry(s, processId, level, message, rawOutput, source, t) ==
  IF processId = NULL THEN [ok |-> TRUE, id |-> 0, db |-> s, fault |-> "none"]
  ELSE addLogEntry(s, [process_id |-> CHOOSE id \in processId : TRUE,
                       timestamp |-> t, level |-> level,
                       message |-> Trimmed(message), raw_output |-> rawOutput,
                       source |-> source], "none")

(* if (this.processId) this.db.updateProcessStatus(...) *)
LoggerUpdateStatus(s, processId, status, exitCode, endTime) ==
  IF processId = NULL THEN s
  ELSE updateProcessStatus(s, CHOOSE id \in processId : TRUE, status,
                           exitCode, endTime)

(* lines.forEach(line => addLogEntry(detectLogLevel(line, source), line,   *)
(* output, source)); an addLogEntry that throws ends the handler           *)
RECURSIVE StoreLines(_, _, _, _, _, _)
StoreLines(s, processId, lines, output, source, t) ==
  IF lines = << >> THEN [ok |-> TRUE, db |-> s]
  ELSE LET r == LoggerAddLogEntry(s, processId,
                  detectLogLevel(Head(lines), source), Named(Head(lines)),
                  output, source, t)
       IN IF r.ok THEN StoreLines(r.db, processId, Tail(lines), output, source, t)
          ELSE [ok |-> FALSE, db |-> r.db]

(* exit handler: code || undefined is undefined for code 0 and for null *)
ExitCodeArgument(code) == IF code = Some(0) THEN NULL ELSE code

ExitStatus(code) == IF code = Some(0) THEN "completed" ELSE "failed"

(* an exit handler that reports every exit as an error *)
ExitLevel_Error(code) == "error"

ExitLevel(code) == IF code = Some(0) THEN "info" ELSE "error"

(* one statement of new LogDatabase(dir) in the constructor of the logger *)
LoggerInit(l) ==
  /\ lg[l].pc = "init"
  /\ LET r == InitStep(db, lg[l].k)
     IN /\ db' = r.db
        /\ lg' = [lg EXCEPT ![l].k = r.next,
                            ![l].pc = IF r.next = InitDone THEN "constructed" ELSE "init"]
  /\ last' = Other("construct")
  /\ UNCHANGED <<now, rd, cl, sr>>

(* performAutoPruning, called by the constructor after new LogDatabase:    *)
(* the age is read from CONSOLE_LOG_MAX_AGE_HOURS; an exception of         *)
(* pruneOldLogs is caught and only warned about                            *)
LoggerAutoPrune(l) ==
  /\ lg[l].pc = "constructed"
  /\ \E env \in EnvValues :
       LET r == pruneOldLogs(db, Cutoff(now, AgeHours(env)), "none")
       IN /\ db' = r.db
          /\ last' = [op |-> "performAutoPruning", arg |-> AgeHours(env),
                      fault |-> r.fault, ok |-> r.ok, n1 |-> r.deletedLogs,
                      n2 |-> r.deletedProcesses, env |-> env]
  /\ lg' = [lg EXCEPT ![l].pc = "pruned", ![l].prunes = @ + 1]
  /\ UNCHANGED <<now, rd, cl, sr>>

(* start(): spawn, then createProcess *)
LoggerCreateProcess(l) ==
  /\ lg[l].pc = "pruned"
  /\ LET r == createProcess(db, LoggerName[l], now)
     IN /\ db' = r.db
        /\ lg' = [lg EXCEPT ![l].pc = "created", ![l].processId = Some(r.id),
                            ![l].child = "alive"]
  /\ last' = Other("createProcess")
  /\ UNCHANGED <<now, rd, cl, sr>>

(* a start() that registers the handlers without storing the start entry *)
LoggerStartEntry_Skip(l) ==
  /\ lg[l].pc = "created"
  /\ lg' = [lg EXCEPT ![l].pc = "running"]
  /\ last' = Did("addLogEntry", 0, "none", TRUE, 0, 0)
  /\ UNCHANGED <<db, now, rd, cl, sr>>

(* start(): the "Process started" entry; then the handlers are registered. *)
(* An exception rejects start(), and main().catch exits with code 1.       *)
LoggerStartEntry(l) ==
  /\ lg[l].pc = "created"
  /\ LET r == LoggerAddLogEntry(db, lg[l].processId, "info", StartMessage[RawCommand],
                                StartMessage[RawCommand], "stdout", now)
     IN /\ db' = r.db
        /\ lg' = [lg EXCEPT ![l].pc = IF r.ok THEN "running" ELSE "crashed"]
        /\ last' = Did("addLogEntry", 0, r.fault, r.ok, 0, 0)
  /\ UNCHANGED <<now, rd, cl, sr>>

(* stdout / stderr "data" handler *)
HandleData(l, source, output) ==
  /\ lg[l].pc = "running"
  /\ LET r == StoreLines(db, lg[l].processId, NonBlank(split(Spell[output])),
                         output, source, now)
     IN /\ db' = r.db
        /\ lg' = [lg EXCEPT ![l].chunks = @ + 1,
                            ![l].pc = IF r.ok THEN "running" ELSE "crashed"]
        /\ last' = Did("data", 0, "none", r.ok, 0, 0)
  /\ UNCHANGED <<now, rd, cl, sr>>

(* the handler, for the chunks the model lets a child write *)
LoggerData(l, source, output) ==
  /\ lg[l].chunks < MaxChunks
  /\ HandleData(l, source, output)

(* childProcess "exit" handler *)
LoggerExit(l, ev) ==
  /\ lg[l].pc = "running"
  /\ LET r == LoggerAddLogEntry(db, lg[l].processId, ExitLevel(ev.code),
                                ExitMessage(ev), ExitMessage(ev), "stdout", now)
     IN IF r.ok
          THEN /\ db' = LoggerUpdateStatus(r.db, lg[l].processId,
                          ExitStatus(ev.code), ExitCodeArgument(ev.code), Some(now))
               /\ lg' = [lg EXCEPT ![l].pc = "exited", ![l].child = "gone"]
          ELSE /\ db' = r.db
               /\ lg' = [lg EXCEPT ![l].pc = "crashed", ![l].child = "gone"]
  /\ last' = Other("exit")
  /\ UNCHANGED <<now, rd, cl, sr>>

(* an error handler that leaves the Process row as it is *)
LoggerError_NoStatus(l) ==
  /\ lg[l].pc = "running"
  /\ LET r == LoggerAddLogEntry(db, lg[l].processId, "error",
                                "Process error: spawn ENOENT", "Error: spawn ENOENT",
                                "stderr", now)
     IN /\ db' = r.db
        /\ lg' = [lg EXCEPT ![l].pc = IF r.ok THEN "exited" ELSE "crashed"]
  /\ last' = Other("error")
  /\ UNCHANGED <<now, rd, cl, sr>>

(* childProcess "error" handler *)
LoggerError(l) ==
  /\ lg[l].pc = "running"
  /\ LET r == LoggerAddLogEntry(db, lg[l].processId, "error",
                                "Process error: spawn ENOENT", "Error: spawn ENOENT",
                                "stderr", now)
     IN IF r.ok
          THEN /\ db' = LoggerUpdateStatus(r.db, lg[l].processId, "failed",
                          Some(-1), Some(now))
               /\ lg' = [lg EXCEPT ![l].pc = "exited"]
          ELSE /\ db' = r.db
               /\ lg' = [lg EXCEPT ![l].pc = "crashed"]
  /\ last' = Other("error")
  /\ UNCHANGED <<now, rd, cl, sr>>

(* a signal handler that forwards the signal and does nothing else *)
LoggerSignal_KillOnly(l, sig) ==
  /\ lg[l].pc = "running"
  /\ lg[l].signals < MaxSignals
  /\ lg' = [lg EXCEPT ![l].signals = @ + 1, ![l].child = sig]
  /\ last' = Other("signal")
  /\ UNCHANGED <<db, now, rd, cl, sr>>

(* SIGINT / SIGTERM handler of the logger: entry, status, then kill(sig) *)
LoggerSignal(l, sig) ==
  /\ lg[l].pc = "running"
  /\ lg[l].signals < MaxSignals
  /\ LET r == LoggerAddLogEntry(db, lg[l].processId, "info", SignalMessage(sig),
                                SignalMessage(sig), "stdout", now)
     IN IF r.ok
          THEN /\ db' = LoggerUpdateStatus(r.db, lg[l].processId, "failed",
                          Some(-1), Some(now))
               /\ lg' = [lg EXCEPT ![l].signals = @ + 1, ![l].child = sig]
          ELSE /\ db' = r.db
               /\ lg' = [lg EXCEPT ![l].pc = "crashed"]
  /\ last' = Other("signal")
  /\ UNCHANGED <<now, rd, cl, sr>>

----------------------------------------------------------------------------
(* SpecLogger: one console-logger process on a new store, from its         *)
(* constructor to its exit                                                 *)

InitLogger ==
  /\ db = EmptyDb
  /\ now = 0
  /\ lg = [l \in Loggers |-> NewLogger]
  /\ rd = Idle
  /\ cl = NoCall
  /\ sr = NoSearch
  /\ last = Other("none")

NextLogger ==
  \/ LoggerInit("L1")
  \/ LoggerAutoPrune("L1")
  \/ LoggerCreateProcess("L1")
  \/ LoggerStartEntry("L1")
  \/ \E source \in {"stdout", "stderr"}, output \in Chunks :
       LoggerData("L1", source, output)
  \/ \E ev \in ExitEvents(lg["L1"].child) : LoggerExit("L1", ev)
  \/ LoggerError("L1")
  \/ \E sig \in {"SIGINT", "SIGTERM"} : LoggerSignal("L1", sig)
  \/ Tick

SpecLogger == InitLogger /\ [][NextLogger]_vars

----------------------------------------------------------------------------
(* SpecData: one console-logger process alone on its store, from its       *)
(* constructor through the chunks of its child to the child's exit         *)

LoggerStep(l) ==
  \/ LoggerInit(l)
  \/ LoggerAutoPrune(l)
  \/ LoggerCreateProcess(l)
  \/ LoggerStartEntry(l)
  \/ \E source \in {"stdout", "stderr"}, output \in Chunks :
       LoggerData(l, source, output)
  \/ \E ev \in ExitEvents(lg[l].child) : LoggerExit(l, ev)

NextData == LoggerStep("L1") \/ Tick

SpecData == InitLogger /\ [][NextData]_vars

(* the lines of a chunk, by position: line k starts after the (k-1)-th     *)
(* line break and ends before the next one                                 *)
LineStarts(cs) == {i \in 1..(Len(cs) + 1) : i = 1 \/ cs[i - 1] = "\n"}

LineAt(cs, i) ==
  LET ends == {j \in i..(Len(cs) + 1) : j = Len(cs) + 1 \/ cs[j] = "\n"}
      end == CHOOSE j \in ends : \A k \in ends : j <= k
  IN SubSeq(cs, i, end - 1)

HasText(line) == \E i \in 1..Len(line) : ~IsSpace(line[i])

TextStarts(cs) == {i \in LineStarts(cs) : HasText(LineAt(cs, i))}

(* the entries a step has added, and the k-th of them by id *)
Added(s, s1) == s1.log_entries \ s.log_entries

(* what the data handler of logger l must have stored for a chunk *)
StoredPerLine(l, source, output) ==
  LET cs == Spell[output]
      starts == TextStarts(cs)
      new == Added(db, db')
  IN /\ db.log_entries \subseteq db'.log_entries
     /\ Cardinality(new) = Cardinality(starts)
     /\ \A i \in starts :
          \E e \in new :
            /\ Rank(e.id, {x.id : x \in new}) = Rank(i, starts)
            /\ Some(e.process_id) = lg[l].processId
            /\ e.message = Named(trim(LineAt(cs, i)))
            /\ e.level = IF source = "stderr" THEN "error"
                         ELSE IF HasError(LineAt(cs, i)) THEN "error"
                         ELSE IF HasWarn(LineAt(cs, i)) THEN "warn"
                         ELSE IF HasDebug(LineAt(cs, i)) THEN "debug"
                         ELSE "info"
            /\ e.source = source
            /\ e.raw_output = output
            /\ e.timestamp = now

(* C16: for every chunk received on stdout or stderr the logger stores     *)
(* exactly one LogEntry per line that is not empty or white space, in line *)
(* order, with the level of that line and stream, the trimmed line as      *)
(* message, the stream as source and the whole chunk as raw_output.        *)
C16_OneEntryPerLine ==
  [][\A source \in Sources, output \in Chunks :
       LoggerData("L1", source, output) => StoredPerLine("L1", source, output)]_vars

C16_Witness ==
  /\ last.op = "data" /\ last.ok
  /\ \E e1, e2 \in db.log_entries :
       /\ e1.id < e2.id
       /\ e1.raw_output = " Warn: disk \nFAILED\n" /\ e2.raw_output = e1.raw_output
       /\ e1.message = "Warn: disk" /\ e1.level = "warn" /\ e1.source = "stdout"
       /\ e2.message = "FAILED" /\ e2.level = "error"

(* C1: for every Process row, end_time and exit_code are both NULL if and  *)
(* only if status = running, and both are set when status is completed or  *)
(* failed.                                                                 *)
C1_TerminalFieldsSet ==
  \A p \in db.processes :
    /\ (p.end_time = NULL /\ p.exit_code = NULL) <=> (p.status = "running")
    /\ (p.status \in {"completed", "failed"})
         => (p.end_time # NULL /\ p.exit_code # NULL)

(* C2: once the end_time of a Process is set, no later event changes its   *)
(* status, exit_code or end_time.                                          *)
C2_TerminalIsFinal ==
  [][\A p \in db.processes :
       p.end_time # NULL => \A q \in db'.processes : q.id = p.id => q = p]_vars

----------------------------------------------------------------------------
(* SpecConc: two console-logger processes on the same store file; every    *)
(* statement and every transaction of one may run between two of the other *)

NextConc == \E l \in Loggers : LoggerStep(l)

SpecConc == InitLogger /\ [][NextConc]_vars

(* the Process row a logger inserted for its own instance *)
OwnRow(l) == {p \in db.processes : Some(p.id) = lg[l].processId}

(* C6: while an instance is running, the actions of another logger on the  *)
(* same store leave its Process row in place and its writes succeed.       *)
C6_RunningInstanceKeepsRow ==
  \A l \in Loggers :
    /\ lg[l].pc \in {"created", "running"} => OwnRow(l) # {}
    /\ lg[l].pc # "crashed"

(* SpecIngest: one console-logger process, from its constructor to the    *)
(* exit of its child, while another instance prunes the same store at any  *)
(* moment                                                                  *)
NextIngest == LoggerStep("L1") \/ DoPruneOldLogs \/ Tick

SpecIngest == InitLogger /\ [][NextIngest]_vars

(* C13: every stored LogEntry's process_id is the id of exactly one        *)
(* stored Process, whatever the interleaving of the writes of one logger   *)
(* and the prunes of another.                                              *)
C13_EntryHasOneProcess ==
  \A e \in db.log_entries :
    Cardinality({p \in db.processes : p.id = e.process_id}) = 1

C13_Witness ==
  /\ last.op = "pruneOldLogs" /\ last.n1 > 0 /\ last.n2 > 0
  /\ lg["L1"].pc = "running" /\ OwnRow("L1") = {}

----------------------------------------------------------------------------
(* SpecRead: get_log_statistics of the MCP server, statement by statement, *)
(* while loggers of other processes write and prune the same store         *)

StatLogCount ==
  /\ rd.pc = "idle"
  /\ rd' = [rd EXCEPT !.pc = "processCount", !.totalLogs = LogCount(db),
                      !.seen = {getLogStatistics(db)}]
  /\ last' = Other("getLogStatistics")
  /\ UNCHANGED <<db, now, lg, cl, sr>>

StatProcessCount ==
  /\ rd.pc = "processCount"
  /\ rd' = [rd EXCEPT !.pc = "oldestLog", !.totalProcesses = ProcessCount(db)]
  /\ last' = Other("getLogStatistics")
  /\ UNCHANGED <<db, now, lg, cl, sr>>

StatOldestLog ==
  /\ rd.pc = "oldestLog"
  /\ rd' = [rd EXCEPT !.pc = "newestLog", !.oldestLog = OldestLog(db)]
  /\ last' = Other("getLogStatistics")
  /\ UNCHANGED <<db, now, lg, cl, sr>>

StatNewestLog ==
  /\ rd.pc = "newestLog"
  /\ rd' = [rd EXCEPT !.pc = "done", !.newestLog = NewestLog(db)]
  /\ last' = Other("getLogStatistics")
  /\ UNCHANGED <<db, now, lg, cl, sr>>

(* the store is filled before the call begins; while it runs, the only    *)
(* writes that commit are the prunes of the other process                  *)
NextRead ==
  \/ rd.pc = "idle" /\ DoCreateProcess
  \/ rd.pc = "idle" /\ DoAddLogEntry
  \/ DoPruneOldLogs
  \/ Tick
  \/ StatLogCount
  \/ StatProcessCount
  \/ StatOldestLog
  \/ StatNewestLog

SpecRead == Init /\ [][NextRead]_vars

Returned(r) ==
  [totalLogs |-> r.totalLogs, totalProcesses |-> r.totalProcesses,
   oldestLog |-> r.oldestLog, newestLog |-> r.newestLog]

(* C7: what a reader returns while pruneOldLogs runs in another process is *)
(* what it would return on one committed state of the store, the one       *)
(* before the prune or the one after it, never a mixture of the two.       *)
C7_ReaderSeesOneState == rd.pc = "done" => Returned(rd) \in rd.seen

----------------------------------------------------------------------------
(* SpecClassify: detectLogLevel called on a line and a stream, then called *)
(* again with the same pair, while the store changes in between            *)

FirstCall(line, source) ==
  [line |-> line, source |-> source, level |-> detectLogLevel(line, source),
   again |-> detectLogLevel(line, source), calls |-> 1]

InitClassify ==
  /\ db = initializeSchema(EmptyDb)
  /\ now = 0
  /\ lg = NoLoggers
  /\ rd = Idle
  /\ last = Other("construct")
  /\ \E line \in Lines, source \in Sources : cl = FirstCall(line, source)
  /\ sr = NoSearch

(* the same pair once more *)
Reclassify ==
  /\ cl.calls = 1
  /\ cl' = [cl EXCEPT !.again = detectLogLevel(cl.line, cl.source), !.calls = 2]
  /\ last' = Other("detectLogLevel")
  /\ UNCHANGED <<db, now, lg, rd, sr>>

NextClassify ==
  \/ Reclassify
  \/ DoCreateProcess

SpecClassify == InitClassify /\ [][NextClassify]_vars

C15_StdoutRuleOrder ==
  (cl.calls > 0 /\ cl.source = "stdout") =>
    /\ HasError(cl.line) => cl.level = "error"
    /\ (~HasError(cl.line) /\ HasWarn(cl.line)) => cl.level = "warn"
    /\ (~HasError(cl.line) /\ ~HasWarn(cl.line) /\ HasDebug(cl.line))
         => cl.level = "debug"
    /\ (~HasError(cl.line) /\ ~HasWarn(cl.line) /\ ~HasDebug(cl.line))
         => cl.level = "info"

C15_Witness ==
  /\ cl.calls = 2 /\ cl.source = "stdout"
  /\ cl.line = <<"W", "a", "r", "n", "F", "A", "I", "L">>
  /\ cl.level = "error"

----------------------------------------------------------------------------
(* SpecSearch: searchLogs on a store that holds the run of one process     *)
(* "web" (started, 'build succeeded' on stdout, 'connection failed' on     *)
(* stderr, exit with code 1), to which a second process "web-1" and        *)
(* further entries are added and which is pruned before the search         *)

MaxLimit == 2

Limits == (0..MaxLimit) \cup {10}

SearchNames == {"web", "web-1", "api"}

SearchInputs ==
  {[level |-> "error", message |-> "connection failed",
    raw_output |-> "connection failed\n", source |-> "stderr"]}

ScenarioDb ==
  LET s0 == initializeSchema(EmptyDb)
      s1 == createProcess(s0, "web", 0).db
      s2 == addLogEntry(s1, [process_id |-> 1, timestamp |-> 0, level |-> "info",
                             message |-> StartMessage[RawCommand],
                             raw_output |-> StartMessage[RawCommand],
                             source |-> "stdout"], "none").db
      s3 == addLogEntry(s2, [process_id |-> 1, timestamp |-> 0, level |-> "info",
                             message |-> "build succeeded",
                             raw_output |-> "build succeeded\n",
                             source |-> "stdout"], "none").db
      s4 == addLogEntry(s3, [process_id |-> 1, timestamp |-> 1, level |-> "error",
                             message |-> "connection failed",
                             raw_output |-> "connection failed\n",
                             source |-> "stderr"], "none").db
      s5 == addLogEntry(s4, [process_id |-> 1, timestamp |-> 1, level |-> "error",
                             message |-> "Process exited with code 1",
                             raw_output |-> "Process exited with code 1",
                             source |-> "stdout"], "none").db
  IN updateProcessStatus(s5, 1, "failed", Some(1), Some(1))

InitSearch ==
  /\ db = ScenarioDb
  /\ now = 1
  /\ lg = NoLoggers
  /\ rd = Idle
  /\ last = Other("construct")
  /\ cl = NoCall
  /\ sr = NoSearch

SearchCreateProcess ==
  /\ ~sr.called
  /\ CallCreateProcess("web-1")

SearchAddLogEntry ==
  /\ ~sr.called
  /\ db.seq_log_entries < ScenarioDb.seq_log_entries + MaxLogs - 1
  /\ \E pid \in 1..MaxProcs, in \in SearchInputs :
       LET r == addLogEntry(db, Entry(pid, now, in), "none")
       IN /\ db' = r.db
          /\ last' = Did("addLogEntry", 0, r.fault, r.ok, 0, 0)
  /\ UNCHANGED <<now, lg, rd, cl, sr>>

SearchPrune == ~sr.called /\ DoPruneOldLogs

Search ==
  /\ ~sr.called
  /\ \E query \in Queries, limit \in Limits,
        processName \in {NULL} \cup {Some(n) : n \in SearchNames},
        level \in {NULL, Some("error")},
        since \in {NULL, Some(0)} :
       LET r == searchLogs(db, query, limit, processName, level, since)
       IN \E result \in r.results :
            sr' = [called |-> TRUE, ok |-> r.ok, query |-> query, limit |-> limit,
                   processName |-> processName, level |-> level, since |-> since,
                   result |-> result]
  /\ last' = Other("searchLogs")
  /\ UNCHANGED <<db, now, lg, rd, cl>>

NextSearch ==
  \/ SearchCreateProcess
  \/ SearchAddLogEntry
  \/ SearchPrune
  \/ Search

SpecSearch == InitSearch /\ [][NextSearch]_vars

(* the entries of the returned list *)
Returns == {sr.result[i] : i \in 1..Len(sr.result)}

Smaller(a, b) == IF a < b THEN a ELSE b

(* C17: the list searchLogs returns for a limit >= 0 is in descending      *)
(* order of timestamp and has at most limit entries, whatever the store,   *)
(* the query and the filters.                                              *)
C17_OrderedAndLimited ==
  (sr.called /\ sr.ok /\ sr.limit >= 0) =>
    /\ Len(sr.result) <= sr.limit
    /\ \A i, j \in 1..Len(sr.result) :
         i < j => sr.result[i].timestamp >= sr.result[j].timestamp

C17_Witness ==
  /\ sr.called /\ sr.ok /\ sr.limit = 2 /\ Len(sr.result) = 2
  /\ sr.result[1].timestamp > sr.result[2].timestamp
  /\ sr.result[2].message = "build succeeded"
  /\ Cardinality(SearchRows(db, FtsResults(db, FtsQuery(sr.query, sr.processName)),
                             sr.level, sr.since)) > 2

(* the indexed text of entry e holds every word of one alternative of the  *)
(* query                                                                   *)
EntryMatches(e, query) ==
  LET text == TokensOf[e.message] \cup TokensOf[e.raw_output]
                \cup TokensOf[ProcessName(db, e.process_id)]
  IN \E o \in OrOperands(query) :
       \A i \in 1..Len(o) : o[i] = "AND" \/ o[i] \in text

(* the entries the filters of the call allow *)
Filtered ==
  {e \in db.log_entries :
     /\ sr.processName # NULL => Some(ProcessName(db, e.process_id)) = sr.processName
     /\ sr.level # NULL => Some(e.level) = sr.level
     /\ sr.since # NULL => \E t \in sr.since : e.timestamp > t}

Matching == {e \in Filtered : EntryMatches(e, sr.query)}

(* C18: the filters are intersected with the text match: the list holds    *)
(* only entries of a Process named processName, of exactly the level, with *)
(* timestamp after since, and it holds all such entries that match the     *)
(* query, up to limit.                                                     *)
C18_FiltersIntersect ==
  (sr.called /\ sr.ok) =>
    /\ Returns \subseteq Matching
    /\ Len(sr.result) = Smaller(sr.limit, Cardinality(Matching))

(* C19: with no filter, searchLogs(query, limit) returns the stored        *)
(* LogEntries whose indexed text matches the query, each once, up to       *)
(* limit; on the run of process web, searchLogs('connection', 10) returns  *)
(* the one entry 'connection failed'.                                      *)
C19_ReturnsTheMatches ==
  (sr.called /\ sr.ok /\ sr.processName = NULL /\ sr.level = NULL /\ sr.since = NULL) =>
    /\ Returns \subseteq Matching
    /\ Cardinality(Returns) = Len(sr.result)
    /\ Len(sr.result) = Smaller(sr.limit, Cardinality(Matching))
    /\ (db = ScenarioDb /\ sr.query = <<"connection">> /\ sr.limit = 10) =>
         /\ Len(sr.result) = 1
         /\ sr.result[1].message = "connection failed"

C19_Witness ==
  /\ sr.called /\ sr.ok /\ sr.processName = NULL /\ sr.level = NULL /\ sr.since = NULL
  /\ db = ScenarioDb /\ sr.query = <<"connection">> /\ sr.limit = 10
  /\ Len(sr.result) = 1

(* C20: a searchLogs call whose query matches no index entry returns the   *)
(* empty list and throws nothing, whatever the optional filters.           *)
C20_NoMatchIsEmpty ==
  (sr.called /\ FtsResults(db, sr.query) = {}) => (sr.ok /\ sr.result = << >>)

----------------------------------------------------------------------------
(* getRecentErrors and getProcessLogs: SELECTs on log_entries JOIN         *)
(* processes, which read neither log_search nor a trigger                  *)

(* SELECT le.*, p.name as process_name *)
WithProcessName(s, e) ==
  [id |-> e.id, process_id |-> e.process_id, timestamp |-> e.timestamp,
   level |-> e.level, message |-> e.message, raw_output |-> e.raw_output,
   source |-> e.source, process_name |-> ProcessName(s, e.process_id)]

(* WHERE le.level = 'error' AND le.timestamp > ? [AND p.name = ?]; an      *)
(* empty processName is falsy                                              *)
ErrorRows(s, since, processName) ==
  {WithProcessName(s, e) : e \in
     {x \in JoinedEntries(s) :
        /\ x.level = "error"
        /\ x.timestamp > since
        /\ (processName = NULL \/ processName = Some("")
              \/ Some(ProcessName(s, x.process_id)) = processName)}}

(* an error listing that goes through the search index *)
getRecentErrors_ViaIndex(s, t, hours, limit, processName) ==
  LET rows == {r \in ErrorRows(s, Cutoff(t, hours), processName) :
                 \E x \in s.log_search : Triple(x) = Triple(r)}
  IN IF LogSearchTable \notin s.objects THEN [ok |-> FALSE, results |-> {<< >>}]
     ELSE [ok |-> TRUE, results |-> {Limited(o, limit) : o \in Ordered(rows)}]

(* getRecentErrors(hours, limit, processName) at instant t: whether it     *)
(* returns and the lists it may return                                     *)
getRecentErrors(s, t, hours, limit, processName) ==
  [ok |-> TRUE,
   results |-> {Limited(o, limit) :
                  o \in Ordered(ErrorRows(s, Cutoff(t, hours), processName))}]

(* a tail that takes the entries of every process *)
ProcessRows_AnyName(s, processName, level) ==
  {e \in JoinedEntries(s) :
     level = NULL \/ level = Some("") \/ Some(e.level) = level}

(* WHERE p.name = ? [AND le.level = ?]; an empty level is falsy *)
ProcessRows(s, processName, level) ==
  {e \in JoinedEntries(s) :
     /\ ProcessName(s, e.process_id) = processName
     /\ (level = NULL \/ level = Some("") \/ Some(e.level) = level)}

(* getProcessLogs(processName, limit, level): the lists it may return *)
getProcessLogs(s, processName, limit, level) ==
  {Limited(o, limit) : o \in Ordered(ProcessRows(s, processName, level))}

(* the record of the last getRecentErrors or getProcessLogs call *)
NoQuery ==
  [called |-> FALSE, op |-> "none", ok |-> TRUE, hours |-> 0, limit |-> 0,
   processName |-> NULL, level |-> NULL, result |-> << >>]

----------------------------------------------------------------------------
(* SpecQuery: the MCP server answers get_recent_errors or                  *)
(* tail_process_logs on the store of SpecSearch, while a further           *)
(* LogDatabase instance is constructed on it statement by statement (which *)
(* drops, recreates and refills the search index) and other instances add  *)
(* entries and prune                                                       *)

InitQuery ==
  /\ db = ScenarioDb
  /\ now = 1
  /\ lg = [l \in Loggers |-> NewLogger]
  /\ rd = Idle
  /\ last = Other("construct")
  /\ cl = NoCall
  /\ sr = NoQuery

QueryConstruct == ~sr.called /\ LoggerInit("L1")

RecentErrors ==
  /\ ~sr.called
  /\ \E hours \in Hours, limit \in Limits,
        processName \in {NULL} \cup {Some(n) : n \in SearchNames} :
       LET r == getRecentErrors(db, now, hours, limit, processName)
       IN \E result \in r.results :
            sr' = [called |-> TRUE, op |-> "getRecentErrors", ok |-> r.ok,
                   hours |-> hours, limit |-> limit, processName |-> processName,
                   level |-> NULL, result |-> result]
  /\ last' = Other("getRecentErrors")
  /\ UNCHANGED <<db, now, lg, rd, cl>>

(* tail_process_logs: process, lines and level go to getProcessLogs *)
CallGetProcessLogs(processName) ==
  /\ \E limit \in Limits, level \in {NULL, Some("error")} :
       \E result \in getProcessLogs(db, processName, limit, level) :
         sr' = [called |-> TRUE, op |-> "getProcessLogs", ok |-> TRUE,
                hours |-> 0, limit |-> limit, processName |-> Some(processName),
                level |-> level, result |-> result]
  /\ last' = Other("getProcessLogs")
  /\ UNCHANGED <<db, now, lg, rd, cl>>

TailProcessLogs ==
  /\ ~sr.called
  /\ \E processName \in SearchNames : CallGetProcessLogs(processName)

NextQuery ==
  \/ QueryConstruct
  \/ SearchCreateProcess
  \/ SearchAddLogEntry
  \/ SearchPrune
  \/ RecentErrors
  \/ TailProcessLogs

SpecQuery == InitQuery /\ [][NextQuery]_vars

(* the stored entry a returned row shows *)
EntryOf(r) ==
  [id |-> r.id, process_id |-> r.process_id, timestamp |-> r.timestamp,
   level |-> r.level, message |-> r.message, raw_output |-> r.raw_output,
   source |-> r.source]

NewestFirst(q) ==
  \A i, j \in 1..Len(q) : i < j => q[i].timestamp >= q[j].timestamp

(* the stored error entries the arguments of the call ask for *)
RecentErrorEntries ==
  {e \in db.log_entries :
     /\ e.level = "error"
     /\ e.timestamp > now - sr.hours
     /\ sr.processName # NULL =>
          \E p \in db.processes : p.id = e.process_id /\ Some(p.name) = sr.processName}

(* the search index is not the projection of the stored entries *)
IndexDegraded ==
  \/ LogSearchTable \notin db.objects
  \/ {Triple(r) : r \in db.log_search}
       # {<<e.message, e.raw_output, ProcessName(db, e.process_id)>> : e \in db.log_entries}
  \/ Cardinality(db.log_search) # Cardinality(db.log_entries)

(* C21: getRecentErrors(hours, limit, processName) returns the entries of  *)
(* level error with timestamp after now - hours (of the named process when *)
(* one is given), newest first, at most limit of them; it returns, and     *)
(* returns the same, whether the search index is in sync, empty, stale,    *)
(* duplicated or missing.                                                  *)
C21_RecentErrorsIgnoreIndex ==
  (sr.called /\ sr.op = "getRecentErrors") =>
    /\ sr.ok
    /\ {EntryOf(r) : r \in Returns} \subseteq RecentErrorEntries
    /\ Cardinality(Returns) = Len(sr.result)
    /\ Len(sr.result) = Smaller(sr.limit, Cardinality(RecentErrorEntries))
    /\ NewestFirst(sr.result)
    /\ \A r \in Returns : r.process_name = ProcessName(db, r.process_id)

C21_Witness ==
  /\ sr.called /\ sr.op = "getRecentErrors" /\ sr.ok
  /\ LogSearchTable \notin db.objects
  /\ sr.processName = Some("web") /\ sr.limit = 2 /\ Len(sr.result) = 2
  /\ \E e \in db.log_entries : e.level = "error" /\ e \notin RecentErrorEntries

(* the stored entries the arguments of the tail ask for *)
TailEntries ==
  {e \in db.log_entries :
     /\ \E p \in db.processes : p.id = e.process_id /\ Some(p.name) = sr.processName
     /\ sr.level # NULL => Some(e.level) = sr.level}

(* C22: getProcessLogs(name, limit, level) returns only entries of a       *)
(* Process named name, of the level when one is given, newest first; it    *)
(* returns min(limit, number of such entries) of them, and no entry left   *)
(* out is newer than a returned one.                                       *)
C22_TailIsMostRecent ==
  (sr.called /\ sr.op = "getProcessLogs") =>
    /\ Returns \subseteq TailEntries
    /\ Cardinality(Returns) = Len(sr.result)
    /\ Len(sr.result) = Smaller(sr.limit, Cardinality(TailEntries))
    /\ NewestFirst(sr.result)
    /\ \A e \in TailEntries \ Returns, r \in Returns : e.timestamp <= r.timestamp

C22_Witness ==
  /\ sr.called /\ sr.op = "getProcessLogs"
  /\ sr.limit = 2 /\ Len(sr.result) = 2 /\ sr.level = NULL
  /\ \E e \in TailEntries : e.timestamp < sr.result[2].timestamp
  /\ \E e \in db.log_entries : e \notin TailEntries

----------------------------------------------------------------------------
(* SpecScenario: one console-logger instance named P on a new store; its   *)
(* child writes 'build succeeded' on stdout and 'connection failed' on     *)
(* stderr, in either order, and exits; then the server tails P             *)

ScenarioChunks ==
  {<<"stdout", "build succeeded\n">>, <<"stderr", "connection failed\n">>}

ScenarioData ==
  /\ lg["L1"].chunks < Cardinality(ScenarioChunks)
  /\ \E c \in ScenarioChunks : HandleData("L1", c[1], c[2])

ScenarioExit == \E ev \in ExitEvents(lg["L1"].child) : LoggerExit("L1", ev)

ScenarioTail ==
  /\ lg["L1"].pc = "exited"
  /\ ~sr.called
  /\ CallGetProcessLogs(LoggerName["L1"])

InitScenario ==
  /\ db = EmptyDb
  /\ now = 0
  /\ lg = [l \in Loggers |-> NewLogger]
  /\ rd = Idle
  /\ cl = NoCall
  /\ sr = NoQuery
  /\ last = Other("none")

NextScenario ==
  \/ LoggerInit("L1")
  \/ LoggerAutoPrune("L1")
  \/ LoggerCreateProcess("L1")
  \/ LoggerStartEntry("L1")
  \/ ScenarioData
  \/ ScenarioExit
  \/ ScenarioTail
  \/ Tick

SpecScenario == InitScenario /\ [][NextScenario]_vars

(* the entries stored with a message, level and source *)
EntriesWith(message, level, source) ==
  {e \in db.log_entries :
     e.message = message /\ e.level = level /\ e.source = source}

(* the run of the scenario is over: each line was handled once and the     *)
(* child has exited with code 1                                            *)
ScenarioDone ==
  /\ lg["L1"].pc = "exited"
  /\ lg["L1"].chunks = Cardinality(ScenarioChunks)
  /\ Cardinality(EntriesWith("build succeeded", "info", "stdout")) = 1
  /\ Cardinality(EntriesWith("connection failed", "error", "stderr")) = 1
  /\ Cardinality(EntriesWith("Process exited with code 1", "error", "stdout")) = 1
  /\ \A p \in db.processes : p.name = LoggerName["L1"] => p.status = "failed"

(* C23: after the run of the scenario, tail_process_logs('P', 10) returns  *)
(* 3 entries, newest first, the exit message being the newest of them.     *)
C23_ScenarioTail ==
  (/\ ScenarioDone
   /\ sr.called /\ sr.op = "getProcessLogs"
   /\ sr.processName = Some("P") /\ sr.limit = 10 /\ sr.level = NULL) =>
    /\ Len(sr.result) = 3
    /\ NewestFirst(sr.result)
    /\ \E i \in 1..Len(sr.result) :
         /\ sr.result[i].message = "Process exited with code 1"
         /\ \A j \in 1..Len(sr.result) :
              sr.result[j].timestamp <= sr.result[i].timestamp

----------------------------------------------------------------------------
(* Reading back what the ingestion path wrote (under SpecData)             *)

(* the five columns of a LogEntry the logger supplies *)
Fields(e) == <<e.timestamp, e.level, e.message, e.raw_output, e.source>>

(* tail_process_logs(name, 10) on store s returns a row with the columns f *)
TailHolds(s, name, f) ==
  \A q \in getProcessLogs(s, name, 10, NULL) :
    \E i \in 1..Len(q) : Fields(q[i]) = f

(* what the data handler hands to addLogEntry for a chunk: for each line   *)
(* with text, the instant, the level of the line, the trimmed line, the    *)
(* chunk and the stream                                                    *)
WrittenByData(source, output) ==
  LET cs == Spell[output]
  IN {<<now, detectLogLevel(LineAt(cs, i), source), Named(trim(LineAt(cs, i))),
        output, source>> : i \in TextStarts(cs)}

(* C24: every LogEntry the logger writes (start entry, one per line of a   *)
(* chunk, exit entry) is returned by a tail_process_logs issued right      *)
(* after the write, with timestamp, level, message, raw_output and source  *)
(* equal to the values written.                                            *)
C24_RoundTrip ==
  [][/\ \A source \in Sources, output \in Chunks :
          LoggerData("L1", source, output) =>
            \A f \in WrittenByData(source, output) :
              TailHolds(db', LoggerName["L1"], f)
     /\ LoggerStartEntry("L1") =>
          TailHolds(db', LoggerName["L1"],
                    <<now, "info", StartMessage[RawCommand], StartMessage[RawCommand],
                      "stdout">>)
     /\ \A ev \in ExitEvents(lg["L1"].child) :
          LoggerExit("L1", ev) =>
            TailHolds(db', LoggerName["L1"],
                      <<now, ExitLevel(ev.code), ExitMessage(ev), ExitMessage(ev),
                        "stdout">>)]_vars

C24_Witness ==
  /\ last.op = "data" /\ last.ok
  /\ \E e \in db.log_entries :
       /\ e.raw_output = " \n\nok" /\ e.message = "ok"
       /\ e.source = "stderr" /\ e.level = "error"
       /\ TailHolds(db, LoggerName["L1"], Fields(e))
  /\ Cardinality(db.log_entries) > 1

----------------------------------------------------------------------------
(* The constructor run again on an initialised store (under SpecSession)   *)

(* log_search holds one row per LogEntry, with the entry's message and     *)
(* raw_output and the name of its process                                  *)
LogIndexIsProjection(s) ==
  /\ LogSearchTable \in s.objects
  /\ Cardinality(s.log_search) = Cardinality(s.log_entries)
  /\ \A e \in s.log_entries :
       LET c == <<e.message, e.raw_output, ProcessName(s, e.process_id)>>
       IN Cardinality({r \in s.log_search : Triple(r) = c})
            = Cardinality({x \in s.log_entries :
                 <<x.message, x.raw_output, ProcessName(s, x.process_id)>> = c})

SessionColumns(x) == <<x.title, x.description, x.tags, x.project>>

(* session_search holds one row per session summary, with its columns *)
SessionIndexIsProjection(s) ==
  /\ SessionSearchTable \in s.objects
  /\ Cardinality(s.session_search) = Cardinality(s.session_summaries)
  /\ \A x \in s.session_summaries :
       Cardinality({r \in s.session_search : SessionColumns(r) = SessionColumns(x)})
         = Cardinality({y \in s.session_summaries :
              SessionColumns(y) = SessionColumns(x)})

(* C25: constructing LogDatabase again on an initialised store throws in   *)
(* no statement, leaves each FTS table and trigger present once, leaves    *)
(* every row of processes, log_entries and session_summaries as it was,    *)
(* and leaves both search indexes equal to the projection of those rows.   *)
C25_ReinitIsIdempotent ==
  [][last'.op = "construct" =>
       /\ InitAllOk(db, 1)
       /\ db'.objects = FtsObjects
       /\ db'.processes = db.processes
       /\ db'.log_entries = db.log_entries
       /\ db'.session_summaries = db.session_summaries
       /\ LogIndexIsProjection(db')
       /\ SessionIndexIsProjection(db')]_vars

C25_Witness ==
  /\ last.op = "construct"
  /\ db.processes # {} /\ db.log_entries # {} /\ db.session_summaries # {}
  /\ Cardinality(db.log_search) > 1
  /\ db.session_search # {}

----------------------------------------------------------------------------
(* Abnormal termination (under SpecLogger)                                 *)

(* the entries that record an abnormal end: the exit entry of a child      *)
(* ended by a signal, and the entry of the error handler                   *)
AbnormalMessages ==
  {ExitMessage([code |-> NULL, signal |-> sig]) : sig \in {"SIGINT", "SIGTERM", "SIGKILL"}}
    \cup {"Process error: spawn ENOENT"}

AbnormalEnd(p) ==
  \E e \in db.log_entries : e.process_id = p.id /\ e.message \in AbnormalMessages

(* C26: when the logger has ended after a spawn error or after its child   *)
(* was ended by a signal (also a SIGINT or SIGTERM the logger forwarded),  *)
(* the stored Process row has exit_code = -1.                              *)
C26_AbnormalExitCode ==
  \A l \in Loggers :
    \A p \in OwnRow(l) :
      (lg[l].pc = "exited" /\ AbnormalEnd(p)) => p.exit_code = Some(-1)

----------------------------------------------------------------------------
(* The CallTool handler of the MCP server: one try around the switch on    *)
(* the tool name; whatever is thrown inside is caught and answered         *)

ToolNames ==
  {"search_logs", "get_recent_errors", "tail_process_logs", "prune_old_logs",
   "get_log_statistics", "no_such_tool"}

(* request.params.arguments for a tool: absent, or an object; for          *)
(* prune_old_logs its max_age_hours may be absent                          *)
ToolArguments(name) ==
  {NULL} \cup
  CASE name = "prune_old_logs" ->
         {Some([max_age_hours |-> m, dry_run |-> d, process |-> "web"]) :
            m \in {NULL} \cup {Some(h) : h \in Hours}, d \in BOOLEAN}
    [] name \in {"search_logs", "get_recent_errors", "tail_process_logs"} ->
         {Some([max_age_hours |-> NULL, dry_run |-> FALSE, process |-> p]) :
            p \in {"web", "web-1"}}
    [] OTHER -> {}

(* what the body of a case does: it throws, or it returns with up to two   *)
(* numbers to show (rows returned, rows deleted, rows counted)             *)
Throws(s, message) ==
  [threw |-> TRUE, message |-> message, db |-> s, n1 |-> 0, n2 |-> 0]

Answers(s, n1, n2) ==
  [threw |-> FALSE, message |-> "", db |-> s, n1 |-> n1, n2 |-> n2]

(* a cutoff that takes an absent max_age_hours as 0 *)
CutoffTime_Zero(t, maxAgeHours) ==
  IF maxAgeHours = NULL THEN Some(t)
  ELSE Some(Cutoff(t, CHOOSE h \in maxAgeHours : TRUE))

(* new Date(Date.now() - maxAgeHours * 60 * 60 * 1000).toISOString(): with *)
(* maxAgeHours undefined the date is invalid and toISOString throws a      *)
(* RangeError (NULL here)                                                  *)
CutoffTime(t, maxAgeHours) ==
  IF maxAgeHours = NULL THEN NULL
  ELSE Some(Cutoff(t, CHOOSE h \in maxAgeHours : TRUE))

(* case "prune_old_logs" *)
ToolPruneOldLogs(s, t, args) ==
  IF args = NULL THEN Throws(s, "Missing required arguments")
  ELSE LET a == CHOOSE x \in args : TRUE
           cutoffTime == CutoffTime(t, a.max_age_hours)
       IN IF cutoffTime = NULL THEN Throws(s, "Invalid time value")
          ELSE LET cutoff == CHOOSE c \in cutoffTime : TRUE
               IN IF a.dry_run
                    THEN Answers(DryRunWrites(s, cutoff), DryRunLogs(s, cutoff),
                                 DryRunProcesses(s, cutoff))
                  ELSE LET r == pruneOldLogs(s, cutoff, "none")
                       IN IF r.ok THEN Answers(r.db, r.deletedLogs, r.deletedProcesses)
                          ELSE Throws(s, "no such table: log_search")

(* case "search_logs", called with the query 'connection'; a destructuring *)
(* of absent arguments throws a TypeError                                  *)
ToolSearchLogs(s, args) ==
  IF args = NULL THEN Throws(s, "Cannot destructure property of undefined")
  ELSE LET a == CHOOSE x \in args : TRUE
           r == searchLogs(s, <<"connection">>, 50, Some(a.process), NULL, NULL)
       IN IF r.ok THEN Answers(s, Len(CHOOSE q \in r.results : TRUE), 0)
          ELSE IF LogSearchTable \notin s.objects
            THEN Throws(s, "no such table: log_search")
          ELSE Throws(s, "fts5: syntax error")

(* case "get_recent_errors" *)
ToolGetRecentErrors(s, t, args) ==
  IF args = NULL THEN Throws(s, "Cannot destructure property of undefined")
  ELSE LET a == CHOOSE x \in args : TRUE
           r == getRecentErrors(s, t, 1, 20, Some(a.process))
       IN Answers(s, Len(CHOOSE q \in r.results : TRUE), 0)

(* case "tail_process_logs" *)
ToolTailProcessLogs(s, args) ==
  IF args = NULL THEN Throws(s, "Cannot destructure property of undefined")
  ELSE LET a == CHOOSE x \in args : TRUE
       IN Answers(s, Len(CHOOSE q \in getProcessLogs(s, a.process, 20, NULL) : TRUE), 0)

(* the switch *)
ToolBody(s, t, name, args) ==
  CASE name = "search_logs" -> ToolSearchLogs(s, args)
    [] name = "get_recent_errors" -> ToolGetRecentErrors(s, t, args)
    [] name = "tail_process_logs" -> ToolTailProcessLogs(s, args)
    [] name = "prune_old_logs" -> ToolPruneOldLogs(s, t, args)
    [] name = "get_log_statistics" -> Answers(s, LogCount(s), ProcessCount(s))
    [] OTHER -> Throws(s, "Unknown tool")

(* a catch that answers without the error indicator *)
CatchError_NoFlag(b) ==
  [isError |-> FALSE, text |-> b.message, serving |-> TRUE]

(* catch (error): the message as text, isError: true; the handler returns  *)
(* and the server goes on serving                                          *)
CatchError(b) ==
  [isError |-> TRUE, text |-> b.message, serving |-> TRUE]

(* the response of the handler *)
ToolResponse(b) ==
  IF b.threw THEN CatchError(b)
  ELSE [isError |-> FALSE, text |-> "json", serving |-> TRUE]

(* the record of the last tool call: what was asked, whether its body      *)
(* threw, the response, and whether an earlier call was answered with an   *)
(* error                                                                   *)
NoToolCall ==
  [called |-> FALSE, op |-> "none", args |-> NULL, threw |-> FALSE,
   isError |-> FALSE, text |-> "", serving |-> TRUE, n1 |-> 0, n2 |-> 0,
   afterError |-> FALSE]

CallTool(name, args) ==
  /\ sr.serving
  /\ LET b == ToolBody(db, now, name, args)
         r == ToolResponse(b)
     IN /\ db' = b.db
        /\ sr' = [called |-> TRUE, op |-> name, args |-> args, threw |-> b.threw,
                  isError |-> r.isError, text |-> r.text, serving |-> r.serving,
                  n1 |-> b.n1, n2 |-> b.n2,
                  afterError |-> sr.afterError \/ (sr.called /\ sr.isError)]
  /\ last' = Other(name)
  /\ UNCHANGED <<now, lg, rd, cl>>

----------------------------------------------------------------------------
(* SpecServer: the MCP server answers tool calls on the store of           *)
(* SpecSearch while the clock advances and another LogDatabase instance is *)
(* constructed on the same store statement by statement                    *)

InitServer ==
  /\ db = ScenarioDb
  /\ now = 1
  /\ lg = [l \in Loggers |-> NewLogger]
  /\ rd = Idle
  /\ last = Other("construct")
  /\ cl = NoCall
  /\ sr = NoToolCall

DoCallTool == \E name \in ToolNames : \E args \in ToolArguments(name) : CallTool(name, args)

NextServer ==
  \/ DoCallTool
  \/ LoggerInit("L1")
  \/ Tick

SpecServer == InitServer /\ [][NextServer]_vars

(* the arguments of the last call lack max_age_hours *)
LacksMaxAge(args) == args = NULL \/ \A a \in args : a.max_age_hours = NULL

(* C27: a prune_old_logs call with no arguments, or with arguments that    *)
(* lack max_age_hours, is answered with an error and leaves the store as   *)
(* it was: no row of processes or log_entries and no index row changes.    *)
C27_PruneNeedsMaxAge ==
  [][(last'.op = "prune_old_logs" /\ sr'.op = "prune_old_logs"
        /\ LacksMaxAge(sr'.args))
       => (sr'.isError /\ sr'.text # "" /\ db' = db)]_vars

C27_Witness ==
  /\ sr.op = "prune_old_logs" /\ last.op = "prune_old_logs"
  /\ sr.args # NULL /\ LacksMaxAge(sr.args)
  /\ \A a \in sr.args : ~a.dry_run
  /\ sr.isError
  /\ db.log_entries # {} /\ db.log_search # {}
  /\ \E e \in db.log_entries : e.timestamp < now

(* C28: every tool call whose body throws (unknown tool, absent or invalid *)
(* arguments, storage or search-syntax error) is answered with a message   *)
(* and isError = true; the server keeps serving, and a later call whose    *)
(* body does not throw is answered without the error indicator.            *)
C28_ErrorsAreAnswered ==
  /\ sr.serving
  /\ (sr.called /\ sr.threw) => (sr.isError /\ sr.text # "")
  /\ (sr.called /\ sr.afterError /\ ~sr.threw) => ~sr.isError

C28_Witness ==
  /\ sr.called /\ sr.afterError /\ ~sr.threw /\ ~sr.isError
  /\ sr.op = "get_recent_errors" /\ sr.n1 > 0

----------------------------------------------------------------------------
(* SpecStart: a console-logger instance from its constructor to the exit   *)
(* of its child, while the constructor of another instance runs on the     *)
(* same store (so that the FTS tables may be missing when the first one    *)
(* prunes)                                                                 *)

NextStart ==
  \/ LoggerStep("L1")
  \/ LoggerInit("L2")

SpecStart == InitLogger /\ [][NextStart]_vars

(* a decimal numeral with an optional sign *)
IsNumeral(cs) ==
  \/ IsDecimal(cs)
  \/ cs # << >> /\ cs[1] \in {"-", "+"} /\ IsDecimal(Tail(cs))

(* the age the variable asks for: its value when it is set to a number,    *)
(* two weeks otherwise                                                     *)
ConfiguredAge(env) ==
  IF env # NULL /\ IsNumeral(CHOOSE cs \in env : TRUE)
    THEN CHOOSE h \in Number(CHOOSE cs \in env : TRUE) : TRUE
  ELSE DefaultMaxAgeHours

(* C29: a logger prunes exactly once, before its child is spawned, with    *)
(* the age of CONSOLE_LOG_MAX_AGE_HOURS when that is set to a number and   *)
(* with 336 hours otherwise; when the prune fails the logger goes on to    *)
(* start its child.                                                        *)
C29_AutoPruneAtStart ==
  /\ \A l \in Loggers :
       /\ lg[l].prunes <= 1
       /\ lg[l].child # "none" => lg[l].prunes = 1
  /\ last.op = "performAutoPruning" =>
       /\ last.arg = ConfiguredAge(last.env)
       /\ lg["L1"].pc = "pruned"

----------------------------------------------------------------------------
(* The start of a process (under SpecData)                                 *)

(* the entries of Process p, and its start entries: level info, written to *)
(* stdout, the message giving the command line of p and the pid            *)
EntriesOf(p) == {e \in db.log_entries : e.process_id = p.id}

StartEntries(p) ==
  {e \in EntriesOf(p) :
     /\ e.level = "info" /\ e.source = "stdout"
     /\ e.message = StartMessage[p.command] /\ e.raw_output = e.message}

(* C30: once start() has created the Process row, the logger has exactly   *)
(* one row, with status running and no end_time and exit_code until the    *)
(* child ends; once the handlers are registered the row has exactly one    *)
(* start entry, of level info with the command line and pid, and every     *)
(* other entry of the process was stored after it.                         *)
C30_StartRowThenStartEntry ==
  \A l \in Loggers :
    /\ lg[l].pc \in {"created", "running", "exited"} => Cardinality(OwnRow(l)) = 1
    /\ \A p \in OwnRow(l) :
         /\ lg[l].pc \in {"created", "running"} =>
              (p.status = "running" /\ p.end_time = NULL /\ p.exit_code = NULL)
         /\ lg[l].pc = "created" => EntriesOf(p) = {}
         /\ lg[l].pc \in {"running", "exited"} =>
              /\ Cardinality(StartEntries(p)) = 1
              /\ \A s \in StartEntries(p), e \in EntriesOf(p) : s.id <= e.id

C30_Witness ==
  /\ lg["L1"].pc = "running" /\ lg["L1"].chunks > 0
  /\ \E p \in OwnRow("L1") :
       /\ Cardinality(EntriesOf(p)) > 2
       /\ \E s \in StartEntries(p) : \A e \in EntriesOf(p) \ {s} : e.id > s.id

----------------------------------------------------------------------------
(* The end of a process (under SpecLogger)                                 *)

(* the Process row of logger l after the step *)
OwnRowAfter(l) == {p \in db'.processes : Some(p.id) = lg[l].processId}

(* the text an exit event must leave in the store: its code, or its signal *)
ExitTexts(ev) ==
  IF ev.code = Some(0) THEN {"Process exited with code 0"}
  ELSE IF ev.code = Some(1) THEN {"Process exited with code 1"}
  ELSE {m \in AbnormalMessages :
          \/ ev.signal = "SIGINT" /\ m = "Process exited with code null (signal: SIGINT)"
          \/ ev.signal = "SIGTERM" /\ m = "Process exited with code null (signal: SIGTERM)"
          \/ ev.signal = "SIGKILL" /\ m = "Process exited with code null (signal: SIGKILL)"}

(* what the exit handler of logger l must have done for the event ev *)
ExitHandled(l, ev) ==
  LET new == Added(db, db')
  IN /\ db.log_entries \subseteq db'.log_entries
     /\ Cardinality(new) = 1
     /\ \A e \in new :
          /\ Some(e.process_id) = lg[l].processId
          /\ e.level = IF ev.code = Some(0) THEN "info" ELSE "error"
          /\ e.message \in ExitTexts(ev)
          /\ e.timestamp = now
     /\ Cardinality(OwnRowAfter(l)) = 1
     /\ \A p \in OwnRowAfter(l) :
          /\ p.status = IF ev.code = Some(0) THEN "completed" ELSE "failed"
          /\ p.end_time = Some(now)
     /\ lg'[l].pc = "exited"

(* the exit entries of Process p *)
ExitEntries(p) ==
  {e \in EntriesOf(p) :
     e.message \in {"Process exited with code 0", "Process exited with code 1"}
                     \cup AbnormalMessages}

(* C31: on the exit of its child the logger stores exactly one entry that  *)
(* gives the exit code or signal, of level info for code 0 and error       *)
(* otherwise, and sets the Process to completed for code 0 and to failed   *)
(* otherwise, with end_time set; no Process is seen completed, or ended by *)
(* the exit handler, without its exit entry in the store.                  *)
C31_ExitEntryThenStatus ==
  /\ [][\A ev \in ExitEvents(lg["L1"].child) :
          LoggerExit("L1", ev) => ExitHandled("L1", ev)]_vars
  /\ [](\A p \in db.processes :
          /\ p.status = "completed" =>
               \E e \in ExitEntries(p) :
                 e.level = "info" /\ e.message = "Process exited with code 0"
          /\ (lg["L1"].pc = "exited" /\ lg["L1"].child = "gone") =>
               Cardinality(ExitEntries(p)) = 1)

C31_Witness ==
  /\ lg["L1"].pc = "exited" /\ lg["L1"].child = "gone" /\ lg["L1"].signals > 0
  /\ \E p \in OwnRow("L1") :
       /\ p.status = "completed" /\ p.end_time # NULL
       /\ \E e \in ExitEntries(p) : e.level = "info"

(* what the error handler of logger l must have done *)
ErrorHandled(l) ==
  LET new == Added(db, db')
  IN /\ db.log_entries \subseteq db'.log_entries
     /\ Cardinality(new) = 1
     /\ \A e \in new :
          /\ Some(e.process_id) = lg[l].processId
          /\ e.level = "error"
          /\ e.message = "Process error: spawn ENOENT"
          /\ e.raw_output = "Error: spawn ENOENT"
          /\ e.timestamp = now
     /\ Cardinality(OwnRowAfter(l)) = 1
     /\ \A p \in OwnRowAfter(l) :
          /\ p.status = "failed"
          /\ p.exit_code = Some(-1)
          /\ p.end_time = Some(now)
     /\ lg'[l].pc = "exited"

(* C32: on a spawn error the logger stores one entry of level error with   *)
(* the error's message and stack, and its Process goes to failed with      *)
(* exit_code -1 and end_time set in the same handler, whether or not any   *)
(* output was stored before.                                               *)
C32_SpawnErrorFails ==
  [][LoggerError("L1") => ErrorHandled("L1")]_vars

C32_Witness ==
  /\ last.op = "error"
  /\ lg["L1"].pc = "exited" /\ lg["L1"].chunks = 0 /\ lg["L1"].signals = 0
  /\ \E p \in OwnRow("L1") :
       /\ p.status = "failed" /\ p.exit_code = Some(-1) /\ p.end_time # NULL
       /\ Cardinality(EntriesOf(p)) = 2
       /\ \E e \in EntriesOf(p) : e.level = "error" /\ e.source = "stderr"

(* the entries a signal handler of the logger stores *)
SignalEntries(p, sig) ==
  {e \in EntriesOf(p) :
     /\ e.level = "info"
     /\ \/ sig = "SIGINT" /\ e.message = "Process terminated by user (SIGINT)"
        \/ sig = "SIGTERM" /\ e.message = "Process terminated (SIGTERM)"}

(* C33: whenever the logger has forwarded SIGINT or SIGTERM to its child   *)
(* and the child has not ended yet, the store already holds the            *)
(* informational entry of that signal and the Process is failed with       *)
(* exit_code -1 and end_time set.                                          *)
C33_StatusBeforeKill ==
  \A l \in Loggers :
    lg[l].child \in {"SIGINT", "SIGTERM"} =>
      /\ OwnRow(l) # {}
      /\ \A p \in OwnRow(l) :
           /\ SignalEntries(p, lg[l].child) # {}
           /\ p.status = "failed"
           /\ p.exit_code = Some(-1)
           /\ p.end_time # NULL
           /\ \A e \in SignalEntries(p, lg[l].child) :
                \A t \in p.end_time : e.timestamp <= t

C33_Witness ==
  /\ lg["L1"].child = "SIGTERM" /\ lg["L1"].signals = 2 /\ lg["L1"].pc = "running"
  /\ \E p \in OwnRow("L1") :
       /\ SignalEntries(p, "SIGINT") # {} /\ SignalEntries(p, "SIGTERM") # {}
       /\ p.status = "failed"

----------------------------------------------------------------------------
(* SpecEntries: the operations that run on a store with LogEntries: a      *)
(* console-logger from its constructor to the exit of its child (start     *)
(* entry, output, exit entry, updateProcessStatus), the constructor of a   *)
(* further instance on the same store, pruneOldLogs and its dry run from   *)
(* the server, and the statistics query                                    *)

(* get_log_statistics of the server: four SELECTs; the two counts *)
EntriesStatistics ==
  /\ last' = Did("getLogStatistics", 0, "none", TRUE,
                 getLogStatistics(db).totalLogs, getLogStatistics(db).totalProcesses)
  /\ UNCHANGED <<db, now, lg, rd, cl, sr>>

NextEntries ==
  \/ LoggerStep("L1")
  \/ Construct
  \/ DoPruneOldLogs
  \/ DoDryRun
  \/ EntriesStatistics
  \/ Tick

SpecEntries == InitLogger /\ [][NextEntries]_vars

(* the step is a pruneOldLogs, of the server or of a logger's constructor, *)
(* and e is older than its cutoff                                          *)
PrunedAsOld(e) ==
  /\ last'.op \in {"pruneOldLogs", "performAutoPruning"}
  /\ last'.ok
  /\ e.timestamp < now - last'.arg

(* C34: no step changes a field of a stored LogEntry (an id never shows    *)
(* another content), and an entry leaves the store only in a pruneOldLogs  *)
(* step that finds it older than the cutoff.                               *)
C34_EntriesImmutable ==
  [][/\ \A e \in db.log_entries, f \in db'.log_entries : f.id = e.id => f = e
     /\ \A e \in db.log_entries : e \in db'.log_entries \/ PrunedAsOld(e)]_vars

C34_Witness ==
  /\ lg["L1"].pc = "exited"
  /\ last.op = "pruneOldLogs" /\ last.ok /\ last.n1 > 0
  /\ \E e \in db.log_entries : e.timestamp >= now - last.arg
  /\ \E p \in db.processes : p.status = "failed"

----------------------------------------------------------------------------
(* Retention and running processes (under SpecIngest)                      *)

(* C35: no pruneOldLogs step, of the server or of a logger's constructor,  *)
(* removes a Process whose status is running.                              *)
C35_PruneKeepsRunning ==
  [][last'.op \in {"pruneOldLogs", "performAutoPruning"} =>
       \A p \in db.processes :
         p.status = "running" => \E q \in db'.processes : q.id = p.id]_vars

----------------------------------------------------------------------------
(* SpecInits: two LogDatabase instances are constructed on the store of    *)
(* SpecSearch at the same time, statement by statement, while a running    *)
(* logger adds entries and the server searches                             *)

InitInits ==
  /\ db = createProcess(ScenarioDb, "web-1", 1).db
  /\ now = 1
  /\ lg = [l \in Loggers |-> NewLogger]
  /\ rd = Idle
  /\ last = Other("construct")
  /\ cl = NoCall
  /\ sr = NoSearch

(* addLogEntry of the running logger, for its own Process *)
InitsAddLogEntry ==
  /\ db.seq_log_entries < ScenarioDb.seq_log_entries + MaxLogs
  /\ \E in \in SearchInputs :
       LET r == addLogEntry(db, Entry(ScenarioDb.seq_processes + 1, now, in), "none")
       IN /\ db' = r.db
          /\ last' = Did("addLogEntry", 0, r.fault, r.ok, 0, 0)
  /\ UNCHANGED <<now, lg, rd, cl, sr>>

(* search_logs of the server: whether it returned and how many rows *)
InitsSearch ==
  /\ \E query \in Queries :
       LET r == searchLogs(db, query, 10, NULL, NULL, NULL)
       IN \E result \in r.results :
            last' = Did("searchLogs", 10, "none", r.ok, Len(result), 0)
  /\ UNCHANGED <<db, now, lg, rd, cl, sr>>

NextInits ==
  \/ \E l \in Loggers : LoggerInit(l)
  \/ InitsAddLogEntry
  \/ InitsSearch

SpecInits == InitInits /\ [][NextInits]_vars

(* C36: while two instances initialise the store, every addLogEntry and    *)
(* every searchLogs succeeds, and once both have finished the log index    *)
(* holds exactly one row per stored LogEntry.                              *)
C36_ConcurrentInit ==
  /\ last.op \in {"addLogEntry", "searchLogs"} => last.ok
  /\ (\A l \in Loggers : lg[l].pc = "constructed") => LogIndexIsProjection(db)

----------------------------------------------------------------------------
(* SpecSummaries: session summaries are created, the store is pruned and   *)
(* constructed again by one instance after another, and then               *)
(* searchSessionSummaries is called                                        *)

SummaryTexts ==
  SummaryInputs \cup
    {[title |-> "docs", description |-> "wrote the guide", tags |-> "[docs]",
      project |-> "console_mcp", timestamp |-> 0]}

(* the tokens FTS5 makes of the columns of a summary *)
SummaryTokens ==
  [s \in {"fix", "fixed the build", "[build]", "docs", "wrote the guide", "[docs]",
          "console_mcp"} |->
     CASE s = "fix" -> {"fix"}
       [] s = "fixed the build" -> {"fixed", "the", "build"}
       [] s = "[build]" -> {"build"}
       [] s = "docs" -> {"docs"}
       [] s = "wrote the guide" -> {"wrote", "the", "guide"}
       [] s = "[docs]" -> {"docs"}
       [] OTHER -> {"console_mcp"}]

ContentTokens(x) ==
  SummaryTokens[x.title] \cup SummaryTokens[x.description]
    \cup SummaryTokens[x.tags] \cup SummaryTokens[x.project]

SummaryQueries == {"build", "guide", "console_mcp", "zzz"}

(* searchSessionSummaries(query, limit): SELECT ss.* FROM session_search s *)
(* JOIN session_summaries ss ON s.rowid = ss.id WHERE session_search MATCH *)
(* ? ORDER BY ss.timestamp DESC LIMIT ?, one row per index row that joins  *)
searchSessionSummaries(s, query, limit) ==
  IF SessionSearchTable \notin s.objects
    THEN [ok |-> FALSE, results |-> {<< >>}]
  ELSE LET joined == {[rowid |-> r.rowid, id |-> x.id, title |-> x.title,
                       description |-> x.description, tags |-> x.tags,
                       timestamp |-> x.timestamp, project |-> x.project] :
                        <<r, x>> \in {<<r1, x1>> \in s.session_search \X s.session_summaries :
                                        r1.rowid = x1.id /\ query \in ContentTokens(r1)}}
       IN [ok |-> TRUE, results |-> {Limited(o, limit) : o \in Ordered(joined)}]

InitSummaries ==
  /\ db = SeedDb
  /\ now = 0
  /\ lg = NoLoggers
  /\ rd = Idle
  /\ cl = NoCall
  /\ sr = NoSearch
  /\ last = Other("construct")

SummariesCreate ==
  /\ ~sr.called
  /\ db.seq_session_summaries < MaxSummaries + 1
  /\ \E x \in SummaryTexts :
       LET r == createSessionSummary(db, [x EXCEPT !.timestamp = now])
       IN /\ db' = r.db
          /\ last' = Did("createSessionSummary", 0, "none", r.ok, 0, 0)
  /\ UNCHANGED <<now, lg, rd, cl, sr>>

SummariesPrune == ~sr.called /\ DoPruneOldLogs

SummariesConstruct == ~sr.called /\ Construct

SummariesSearch ==
  /\ ~sr.called
  /\ \E query \in SummaryQueries :
       LET r == searchSessionSummaries(db, query, 50)
       IN \E result \in r.results :
            sr' = [called |-> TRUE, ok |-> r.ok, query |-> <<query>>, limit |-> 50,
                   processName |-> NULL, level |-> NULL, since |-> NULL,
                   result |-> result]
  /\ last' = Other("searchSessionSummaries")
  /\ UNCHANGED <<db, now, lg, rd, cl>>

NextSummaries ==
  \/ SummariesCreate
  \/ SummariesPrune
  \/ SummariesConstruct
  \/ SummariesSearch

SpecSummaries == InitSummaries /\ [][NextSummaries]_vars

(* the ids of the summaries a search returned, and of those whose own      *)
(* title, description, tags or project hold the word searched              *)
ReturnedIds == {sr.result[i].id : i \in 1..Len(sr.result)}

OwnMatches(query) == {x.id : x \in {y \in db.session_summaries : query \in ContentTokens(y)}}

(* C37: searchSessionSummaries returns exactly the summaries whose own     *)
(* content matches the query, each once.                                   *)
C37_SessionSearchReturnsOwn ==
  (sr.called /\ last.op = "searchSessionSummaries") =>
    /\ sr.ok
    /\ ReturnedIds = OwnMatches(sr.query[1])
    /\ Len(sr.result) = Cardinality(ReturnedIds)

----------------------------------------------------------------------------
(* Writes after the end of a process (under SpecLogger)                    *)

(* C38: once a Process is completed or failed, no step adds a LogEntry of  *)
(* that Process or changes its row.                                        *)
C38_NoWriteAfterTerminal ==
  [][\A p \in db.processes :
       p.status \in {"completed", "failed"} =>
         /\ \A e \in Added(db, db') : e.process_id # p.id
         /\ p \in db'.processes]_vars

----------------------------------------------------------------------------
(* SpecOutput: one console-logger instance on a new store whose child      *)
(* writes 'build succeeded' to stdout and 'connection failed' to stderr    *)
(* and then exits.  The logger gets a data event for each chunk and the    *)
(* exit event of the child; the exit event may be delivered before, between *)
(* or after the data events.                                               *)

ChildOutput ==
  << <<"stdout", "build succeeded\n">>, <<"stderr", "connection failed\n">> >>

(* the data event of the next chunk the logger has not yet received *)
OutputData ==
  /\ lg["L1"].chunks < Len(ChildOutput)
  /\ HandleData("L1", ChildOutput[lg["L1"].chunks + 1][1],
                ChildOutput[lg["L1"].chunks + 1][2])

(* the exit event: the handler ends with db.close() and process.exit() *)
OutputExit == \E ev \in ExitEvents(lg["L1"].child) : LoggerExit("L1", ev)

NextOutput ==
  \/ LoggerInit("L1")
  \/ LoggerAutoPrune("L1")
  \/ LoggerCreateProcess("L1")
  \/ LoggerStartEntry("L1")
  \/ OutputData
  \/ OutputExit
  \/ Tick

SpecOutput == InitLogger /\ [][NextOutput]_vars

(* the line of a chunk that starts at position i has its entry *)
LineStored(c, i) ==
  \E e \in db.log_entries :
    /\ e.source = c[1]
    /\ e.raw_output = c[2]
    /\ e.message = Named(trim(LineAt(Spell[c[2]], i)))

(* C39: when the logger has exited, every line with text that its child    *)
(* wrote to stdout or stderr is stored as a LogEntry.                      *)
C39_NoOutputLost ==
  lg["L1"].pc = "exited" =>
    \A k \in 1..Len(ChildOutput) :
      \A i \in TextStarts(Spell[ChildOutput[k][2]]) : LineStored(ChildOutput[k], i)

====
